---- MODULE Spec2Model ----
(***************************************************************************)
(* Model of the binary codec core of ts4translatorTR.py: the localization  *)
(* table codec (StringTableFile), the archive model (DBPFFile) and the     *)
(* helpers they call.                                                      *)
(*                                                                         *)
(* Representation.                                                         *)
(*   bytes / bytearray   a sequence of 0..255 (index i of Python is i+1)   *)
(*   str                 a sequence of Unicode code points                 *)
(*   dict                a sequence of entries with distinct keys, in      *)
(*                       insertion order (Python dicts keep that order)    *)
(*   32-bit word         an integer; a value v >= 2^31 is kept as v - 2^32 *)
(*                       (two's complement), so that every word fits the   *)
(*                       checker's integers and equality stays exact       *)
(*   b'' / False         the failure values of the code are kept as such   *)
(***************************************************************************)
EXTENDS Integers, Sequences, FiniteSets, TLC

VARIABLES
    strings,      \* StringTableFile.strings of the table being edited
    stbl_bytes,    \* the buffer handed to / returned by the table codec
    tampered,     \* stbl_bytes is no longer the output of save_to_binary
    loaded,       \* result of StringTableFile.load_from_binary(stbl_bytes)
    stage,        \* position of the table session
    package,           \* what the opened .package file holds (see PackageBytes)
    current_file_data, \* ModTranslator.current_file_data
    header,            \* DBPFFile.header (<<>> for None)
    entries,           \* DBPFFile.entries
    string_tables,     \* DBPFFile.string_tables
    tables_at_load,    \* string_tables as load_from_binary left it
    load_ok,           \* the bool returned by DBPFFile.load_from_binary
    string_table,      \* ModTranslator.string_table.strings (the merged table)
    output,            \* the bytes returned by DBPFFile.save_to_binary
    pc,                \* position of the package session
    ref_ibuf,          \* the buffer handed to decode_ref_pack
    ref_result,        \* what decode_ref_pack gave for ref_ibuf
    ref_done,          \* decode_ref_pack was called on ref_ibuf
    batch_pc,          \* position of the batch translation
    active_workers,    \* ModTranslator.active_workers
    workers,           \* where each TranslateWorker of the batch is
    signals,           \* the signals emitted by workers, not yet delivered
    completion_shown   \* the status bar shows the completion message

stblVars == <<strings, stbl_bytes, tampered, loaded, stage>>

pkgVars == <<package, current_file_data, header, entries, string_tables,
             tables_at_load, load_ok, string_table, output, pc>>

refVars == <<ref_ibuf, ref_result, ref_done>>

batchVars == <<batch_pc, active_workers, workers, signals, completion_shown>>

vars == <<strings, stbl_bytes, tampered, loaded, stage, package,
          current_file_data, header, entries, string_tables, tables_at_load,
          load_ok, string_table, output, pc, ref_ibuf, ref_result, ref_done,
          batch_pc, active_workers, workers, signals, completion_shown>>

----------------------------------------------------------------------------
(* Bounds of the model *)

\* entries of a table in the table codec session
MaxEntries == 2

\* bytes of opcodes and literals after the header of a RefPack buffer
MaxBody == 4

\* index records of a package file
MaxRecords == 2

\* chunks of ten texts in a batch translation
MaxChunks == 3

----------------------------------------------------------------------------
(* Bytes, slices and little-endian integers *)

Min(a, b) == IF a < b THEN a ELSE b

Max(a, b) == IF a > b THEN a ELSE b

\* data[a:b] of Python for 0 <= a, 0 <= b: clamped to the buffer, never raises
Slice(data, a, b) ==
    IF a >= Len(data) \/ b <= a THEN <<>>
    ELSE SubSeq(data, a + 1, Min(b, Len(data)))

\* v // 2^31 and v % 2^31 of an unsigned 32-bit word kept in two's complement
HighBit(v) == v < 0

Low31(v) == IF v < 0 THEN (v + 2147483647) + 1 ELSE v

\* int.from_bytes(s, 'little') for a slice s of at most 4 bytes
RECURSIVE FromBytesLow(_)
FromBytesLow(s) ==
    IF s = <<>> THEN 0 ELSE s[1] + 256 * FromBytesLow(Tail(s))

FromBytes(s) ==
    IF Len(s) = 4 /\ s[4] >= 128
    THEN (FromBytesLow(<<s[1], s[2], s[3], s[4] - 128>>) - 2147483647) - 1
    ELSE FromBytesLow(s)

\* n.to_bytes(w, 'little') for 0 <= n < 2^31
RECURSIVE ToBytesLow(_, _)
ToBytesLow(n, w) ==
    IF w = 0 THEN <<>> ELSE <<n % 256>> \o ToBytesLow(n \div 256, w - 1)

\* v.to_bytes(4, 'little') of a 32-bit word
ToBytes4(v) ==
    IF v < 0
    THEN LET b == ToBytesLow(Low31(v), 4) IN <<b[1], b[2], b[3], b[4] + 128>>
    ELSE ToBytesLow(v, 4)

\* unsigned order of two 32-bit words
ULess(a, b) ==
    IF (a < 0) = (b < 0) THEN a < b ELSE b < 0

----------------------------------------------------------------------------
(* str.encode('utf-8') and bytes.decode('utf-8', errors='replace') *)

MaxStringBytes == 65535

ReplacementChar == 65533

IsSurrogate(cp) == cp >= 55296 /\ cp <= 57343

\* the UTF-8 bytes of one code point (lone surrogates have none)
EncodeChar(cp) ==
    IF cp < 128 THEN <<cp>>
    ELSE IF cp < 2048 THEN <<192 + (cp \div 64), 128 + (cp % 64)>>
    ELSE IF cp < 65536
         THEN <<224 + (cp \div 4096), 128 + ((cp \div 64) % 64), 128 + (cp % 64)>>
    ELSE <<240 + (cp \div 262144), 128 + ((cp \div 4096) % 64),
           128 + ((cp \div 64) % 64), 128 + (cp % 64)>>

\* str.encode('utf-8') raises UnicodeEncodeError on a lone surrogate
CanEncode(text) == \A i \in 1..Len(text) : ~IsSurrogate(text[i])

RECURSIVE utf8_encode(_)
utf8_encode(text) ==
    IF text = <<>> THEN <<>>
    ELSE EncodeChar(Head(text)) \o utf8_encode(Tail(text))

IsCont(s, i) == i <= Len(s) /\ s[i] >= 128 /\ s[i] <= 191

\* the second byte of a 3- or 4-byte sequence has a narrower range after
\* the lead bytes E0, ED, F0 and F4
SecondOk(s, lead) ==
    /\ Len(s) >= 2
    /\ s[2] >= (IF lead = 224 THEN 160 ELSE IF lead = 240 THEN 144 ELSE 128)
    /\ s[2] <= (IF lead = 237 THEN 159 ELSE IF lead = 244 THEN 143 ELSE 191)

\* one decoding step on a non-empty s: <<code point, bytes consumed>>; an
\* ill-formed or truncated sequence gives U+FFFD for its maximal prefix
DecodeStep(s) ==
    LET b == s[1] IN
    IF b < 128 THEN <<b, 1>>
    ELSE IF b < 194 \/ b > 244 THEN <<ReplacementChar, 1>>
    ELSE IF b < 224
         THEN IF IsCont(s, 2) THEN <<(b - 192) * 64 + (s[2] - 128), 2>>
              ELSE <<ReplacementChar, 1>>
    ELSE IF b < 240
         THEN IF ~SecondOk(s, b) THEN <<ReplacementChar, 1>>
              ELSE IF ~IsCont(s, 3) THEN <<ReplacementChar, 2>>
              ELSE <<(b - 224) * 4096 + (s[2] - 128) * 64 + (s[3] - 128), 3>>
    ELSE IF ~SecondOk(s, b) THEN <<ReplacementChar, 1>>
         ELSE IF ~IsCont(s, 3) THEN <<ReplacementChar, 2>>
         ELSE IF ~IsCont(s, 4) THEN <<ReplacementChar, 3>>
         ELSE <<(b - 240) * 262144 + (s[2] - 128) * 4096
                + (s[3] - 128) * 64 + (s[4] - 128), 4>>

RECURSIVE utf8_decode(_)
utf8_decode(s) ==
    IF s = <<>> THEN <<>>
    ELSE LET d == DecodeStep(s) IN
         <<d[1]>> \o utf8_decode(SubSeq(s, d[2] + 1, Len(s)))

----------------------------------------------------------------------------
(* StringTableEntry *)

CR == 13

LF == 10

\* str.replace("\r", "")
RemoveCR(text) == SelectSeq(text, LAMBDA c : c # CR)

\* str.replace("\n", "\\n"): a line feed becomes backslash, n
RECURSIVE EscapeLF(_)
EscapeLF(text) ==
    IF text = <<>> THEN <<>>
    ELSE (IF Head(text) = LF THEN <<92, 110>> ELSE <<Head(text)>>)
         \o EscapeLF(Tail(text))

\* a formatter that escapes the line feeds and keeps the carriage returns
get_formatted_value_KeepCR(value) ==
    IF value # <<>> THEN EscapeLF(value) ELSE <<>>

get_formatted_value(value) ==
    IF value # <<>> THEN EscapeLF(RemoveCR(value)) ELSE <<>>

StringTableEntry(k, v, f) == [key |-> k, value |-> v, flags |-> f]

----------------------------------------------------------------------------
(* dict operations on StringTableFile.strings *)

Keys(d) == {d[i].key : i \in 1..Len(d)}

Lookup(d, k) == d[CHOOSE i \in 1..Len(d) : d[i].key = k]

\* d[k] = e: an existing key keeps its position, a new key goes last
DictSet(d, k, e) ==
    IF k \in Keys(d)
    THEN [i \in 1..Len(d) |-> IF d[i].key = k THEN e ELSE d[i]]
    ELSE Append(d, e)

\* sorted(keys): ascending as unsigned integers
RECURSIVE SortedKeys(_)
SortedKeys(ks) ==
    IF ks = {} THEN <<>>
    ELSE LET m == CHOOSE x \in ks : \A y \in ks : y = x \/ ULess(x, y) IN
         <<m>> \o SortedKeys(ks \ {m})

----------------------------------------------------------------------------
(* StringTableFile.save_to_binary *)

STBL_MAGIC == <<83, 84, 66, 76>>

STBL_VERSION == 5

EntryHeaderSize == 7

\* the bytes written for the text of one entry: a 2-byte length and the text
StringBytes(value) ==
    LET formatted_value == get_formatted_value(value) IN
    IF formatted_value # <<>>
    THEN LET string_bytes == utf8_encode(formatted_value) IN
         ToBytesLow(Len(string_bytes), 2) \o string_bytes
    ELSE ToBytesLow(0, 2)

\* what makes the body of save_to_binary raise: a text that cannot be
\* encoded, a text longer than the 2-byte length field, a flag that is no byte
SaveRaises(d) ==
    \E i \in 1..Len(d) :
        LET formatted_value == get_formatted_value(d[i].value) IN
        \/ ~CanEncode(formatted_value)
        \/ Len(utf8_encode(formatted_value)) > MaxStringBytes
        \/ d[i].flags \notin 0..255

\* a length that counts characters instead of encoded bytes
RECURSIVE StringsLength_Chars(_)
StringsLength_Chars(d) ==
    IF d = <<>> THEN 0
    ELSE Len(get_formatted_value(Head(d).value)) + EntryHeaderSize
         + StringsLength_Chars(Tail(d))

\* first loop: over the values in insertion order
RECURSIVE StringsLength(_)
StringsLength(d) ==
    IF d = <<>> THEN 0
    ELSE LET formatted_value == get_formatted_value(Head(d).value) IN
         (IF formatted_value # <<>>
          THEN Len(utf8_encode(formatted_value)) + EntryHeaderSize
          ELSE EntryHeaderSize)
         + StringsLength(Tail(d))

\* second loop: over the sorted keys
RECURSIVE WriteStrings(_, _)
WriteStrings(d, ks) ==
    IF ks = <<>> THEN <<>>
    ELSE LET key == Head(ks)
             entry == Lookup(d, key)
         IN  ToBytes4(key) \o <<entry.flags>> \o StringBytes(entry.value)
             \o WriteStrings(d, Tail(ks))

StblHeader(d) ==
    STBL_MAGIC \o ToBytesLow(STBL_VERSION, 2) \o <<0>>
    \o ToBytesLow(Len(d), 8) \o ToBytesLow(0, 2)
    \o ToBytesLow(StringsLength(d), 4)

\* a writer that walks the dict in insertion order
WriteOrder_Unsorted(d) == [i \in 1..Len(d) |-> d[i].key]

\* sorted(self.strings.keys())
WriteOrder(d) == SortedKeys(Keys(d))

stbl_save_to_binary(d) ==
    IF SaveRaises(d) THEN <<>>
    ELSE StblHeader(d) \o WriteStrings(d, WriteOrder(d))

----------------------------------------------------------------------------
(* StringTableFile.load_from_binary *)

MinStblSize == 20

\* an entry count that does not fit the checker's integers
Unbounded == -1

\* int.from_bytes(data[7:15], 'little')
ReadNumEntries(data) ==
    LET low == FromBytes(Slice(data, 7, 11))
        high == Slice(data, 11, 15)
    IN  IF low < 0 \/ \E i \in 1..Len(high) : high[i] # 0
        THEN Unbounded ELSE low

\* a loop that stores every entry with the default flag
RECURSIVE ReadStrings_NoFlags(_, _, _, _)
ReadStrings_NoFlags(data, pos, n, d) ==
    IF n = 0 \/ pos + 4 >= Len(data) THEN d
    ELSE LET key == FromBytes(Slice(data, pos, pos + 4))
             length == FromBytesLow(Slice(data, pos + 5, pos + 7))
             value == utf8_decode(Slice(data, pos + 7, pos + 7 + length))
         IN  ReadStrings_NoFlags(data, pos + 7 + length,
                         IF n = Unbounded THEN n ELSE n - 1,
                         DictSet(d, key, StringTableEntry(key, value, 0)))

\* a loop that gives up at the first entry whose text is not valid UTF-8
RECURSIVE ReadStrings_StopAtBadText(_, _, _, _)
ReadStrings_StopAtBadText(data, pos, n, d) ==
    IF n = 0 \/ pos + 4 >= Len(data) THEN d
    ELSE LET key == FromBytes(Slice(data, pos, pos + 4))
             flags == data[pos + 5]
             length == FromBytesLow(Slice(data, pos + 5, pos + 7))
             value == utf8_decode(Slice(data, pos + 7, pos + 7 + length))
         IN  IF \E i \in 1..Len(value) : value[i] = ReplacementChar THEN d
             ELSE ReadStrings_StopAtBadText(data, pos + 7 + length,
                         IF n = Unbounded THEN n ELSE n - 1,
                         DictSet(d, key, StringTableEntry(key, value, flags)))

\* the loop over range(num_entries), from position pos with n entries to go.
\* data[pos + 4] (the flag byte) raises IndexError past the end of the
\* buffer; the entry is skipped with pos advanced by 4, so every later
\* iteration raises as well and stores nothing: the loop is cut there.
RECURSIVE ReadStrings(_, _, _, _)
ReadStrings(data, pos, n, d) ==
    IF n = 0 \/ pos + 4 >= Len(data) THEN d
    ELSE LET key == FromBytes(Slice(data, pos, pos + 4))
             flags == data[pos + 5]
             length == FromBytesLow(Slice(data, pos + 5, pos + 7))
             value == utf8_decode(Slice(data, pos + 7, pos + 7 + length))
         IN  ReadStrings(data, pos + 7 + length,
                         IF n = Unbounded THEN n ELSE n - 1,
                         DictSet(d, key, StringTableEntry(key, value, flags)))

\* a loader that compares only the low byte of the version
stbl_load_from_binary_LowByte(data) ==
    IF Len(data) < MinStblSize THEN [ok |-> FALSE, strings |-> <<>>]
    ELSE IF Slice(data, 0, 4) # STBL_MAGIC THEN [ok |-> FALSE, strings |-> <<>>]
    ELSE IF data[5] # STBL_VERSION THEN [ok |-> FALSE, strings |-> <<>>]
    ELSE [ok |-> TRUE,
          strings |-> ReadStrings(data, 21, ReadNumEntries(data), <<>>)]

\* [ok: the returned bool, strings: self.strings after the call] on a new
\* StringTableFile
stbl_load_from_binary(data) ==
    IF Len(data) < MinStblSize THEN [ok |-> FALSE, strings |-> <<>>]
    ELSE IF Slice(data, 0, 4) # STBL_MAGIC THEN [ok |-> FALSE, strings |-> <<>>]
    ELSE IF FromBytesLow(Slice(data, 4, 6)) # STBL_VERSION
         THEN [ok |-> FALSE, strings |-> <<>>]
    ELSE [ok |-> TRUE,
          strings |-> ReadStrings(data, 21, ReadNumEntries(data), <<>>)]

----------------------------------------------------------------------------
(* bytearray slice assignment and the deflate collaborator *)

\* data[a:b] = new of Python on a bytearray, 0 <= a <= b: the slice is
\* clamped to the buffer, so the buffer grows when the slice is shorter
\* than new (a slice at or past the end appends)
SliceAssign(data, a, b, new) ==
    LET lo == Min(a, Len(data))
        hi == Max(lo, Min(b, Len(data)))
    IN  SubSeq(data, 1, lo) \o new \o SubSeq(data, hi + 1, Len(data))

AdlerModulus == 65521

\* f[lo] + ... + f[hi], by halves
RECURSIVE RangeSum(_, _, _)
RangeSum(f, lo, hi) ==
    IF lo > hi THEN 0
    ELSE IF lo = hi THEN f[lo]
    ELSE LET mid == (lo + hi) \div 2 IN
         RangeSum(f, lo, mid) + RangeSum(f, mid + 1, hi)

\* zlib.adler32(s).to_bytes(4, 'big'): the sum a = 1 + s[1] + ... + s[n]
\* and the sum b of the n values that a takes on the way, both modulo
\* 65521, for s of fewer than 2048 bytes
Adler32(s) ==
    LET n == Len(s)
        a == (1 + RangeSum(s, 1, n)) % AdlerModulus
        b == (n + RangeSum([i \in 1..n |-> (n - i + 1) * s[i]], 1, n))
                 % AdlerModulus
    IN  <<b \div 256, b % 256, a \div 256, a % 256>>

\* zlib.compress(s): a zlib stream of s. The model writes the stream with
\* one stored deflate block (header 78 01, block header 01, LEN, ~LEN, the
\* bytes, Adler-32), for s shorter than 65536 bytes.
zlib_compress(s) ==
    <<120, 1, 1>> \o ToBytesLow(Len(s), 2) \o ToBytesLow(65535 - Len(s), 2)
    \o s \o Adler32(s)

\* zlib.decompress(s, 15, bufsize) on such a stream: [ok, data]; ok is
\* FALSE where zlib.error is raised (bad header, truncated stream, wrong
\* checksum). Bytes after the end of the stream are ignored, and bufsize
\* only sizes the first output buffer.
zlib_decompress(s) ==
    LET n == FromBytesLow(Slice(s, 3, 5)) IN
    IF /\ Len(s) >= 7
       /\ Slice(s, 0, 3) = <<120, 1, 1>>
       /\ FromBytesLow(Slice(s, 5, 7)) = 65535 - n
       /\ Len(s) >= 11 + n
       /\ Slice(s, 7 + n, 11 + n) = Adler32(Slice(s, 7, 7 + n))
    THEN [ok |-> TRUE, data |-> Slice(s, 7, 7 + n)]
    ELSE [ok |-> FALSE, data |-> <<>>]

----------------------------------------------------------------------------
(* decode_ref_pack *)

RefPackSignature == 251

Raised == [ok |-> FALSE, data |-> <<>>]

\* big-endian value of the size bytes
RECURSIVE BigEndian(_, _)
BigEndian(s, acc) ==
    IF s = <<>> THEN acc ELSE BigEndian(Tail(s), acc * 256 + Head(s))

\* the control bytes of the opcode at iptr: [n: input bytes the code steps
\* over, num_plaintext, num_to_copy, copy_offset]; n = 0 where reading a
\* control byte raises IndexError
Opcode(ibuf, iptr) ==
    LET cc0 == ibuf[iptr + 1]
        has(k) == iptr + k < Len(ibuf)
        cc1 == ibuf[iptr + 2]
        cc2 == ibuf[iptr + 3]
        cc3 == ibuf[iptr + 4]
        none == [n |-> 0, num_plaintext |-> 0, num_to_copy |-> 0, copy_offset |-> 0]
    IN
    IF cc0 <= 127
    THEN IF ~has(1) THEN none
         ELSE [n |-> 2,
               num_plaintext |-> cc0 % 4,
               num_to_copy |-> ((cc0 \div 4) % 8) + 3,
               copy_offset |-> ((cc0 \div 32) % 4) * 256 + cc1]
    ELSE IF cc0 <= 191
    THEN IF ~has(2) THEN none
         ELSE [n |-> 4,
               num_plaintext |-> cc1 \div 64,
               num_to_copy |-> (cc0 % 64) + 4,
               copy_offset |-> (cc1 % 64) * 256 + cc2]
    ELSE IF cc0 <= 223
    THEN IF ~has(3) THEN none
         ELSE [n |-> 4,
               num_plaintext |-> cc0 % 4,
               num_to_copy |-> ((cc0 \div 4) % 4) * 256 + cc3 + 5,
               copy_offset |-> ((cc0 \div 16) % 2) * 65536 + cc1 * 256 + cc2]
    ELSE IF cc0 <= 251
    THEN [n |-> 1, num_plaintext |-> (cc0 % 32) * 4 + 4,
          num_to_copy |-> 0, copy_offset |-> 0]
    ELSE [n |-> 1, num_plaintext |-> cc0 % 4,
          num_to_copy |-> 0, copy_offset |-> 0]

\* a copy that reads the buffer as it was before the copy began
CopyBytes_FromSnapshot(obuf, optr, n, copy_offset) ==
    IF n = 0 THEN [ok |-> TRUE, data |-> obuf]
    ELSE IF optr + n > Len(obuf) \/ optr - 1 - copy_offset < 0 THEN Raised
    ELSE [ok |-> TRUE,
          data |-> [i \in 1..Len(obuf) |->
                      IF i > optr /\ i <= optr + n
                      THEN obuf[i - 1 - copy_offset] ELSE obuf[i]]]

\* for _ in range(num_to_copy): obuf[optr] = obuf[optr - 1 - copy_offset].
\* Writing at optr >= len(obuf) raises IndexError; a negative source index
\* counts from the end of obuf and raises IndexError below -len(obuf).
RECURSIVE CopyBytes(_, _, _, _)
CopyBytes(obuf, optr, n, copy_offset) ==
    IF n = 0 THEN [ok |-> TRUE, data |-> obuf]
    ELSE LET src == optr - 1 - copy_offset
             at == IF src < 0 THEN src + Len(obuf) ELSE src
         IN  IF optr >= Len(obuf) \/ at < 0 THEN Raised
             ELSE CopyBytes([obuf EXCEPT ![optr + 1] = obuf[at + 1]],
                            optr + 1, n - 1, copy_offset)

\* while iptr < len(ibuf): one opcode, its literals, its copy
RECURSIVE RefPackLoop(_, _, _, _)
RefPackLoop(ibuf, iptr, obuf, optr) ==
    IF iptr >= Len(ibuf) THEN [ok |-> TRUE, data |-> obuf]
    ELSE LET op == Opcode(ibuf, iptr) IN
         IF op.n = 0 THEN Raised
         ELSE LET lit == iptr + op.n
                  withText == SliceAssign(obuf, optr, optr + op.num_plaintext,
                                  Slice(ibuf, lit, lit + op.num_plaintext))
                  copied == CopyBytes(withText, optr + op.num_plaintext,
                                      op.num_to_copy, op.copy_offset)
              IN  IF ~copied.ok THEN Raised
                  ELSE RefPackLoop(ibuf, lit + op.num_plaintext, copied.data,
                                   optr + op.num_plaintext + op.num_to_copy)

\* a decoder without the test of the signature byte
decode_ref_pack_NoSignature(ibuf) ==
    IF Len(ibuf) < 2 THEN Raised
    ELSE LET k == IF ibuf[1] >= 128 THEN 4 ELSE 3 IN
         IF Len(ibuf) < 2 + k THEN Raised
         ELSE IF k = 4 /\ ibuf[3] >= 128 THEN Raised
         ELSE LET osize == BigEndian(Slice(ibuf, 2, 2 + k), 0) IN
              RefPackLoop(ibuf, 2 + k, [i \in 1..osize |-> 0], 0)

\* [ok, data]: ok is FALSE where the function raises. A declared size of
\* 2^31 bytes or more is taken to raise MemoryError.
decode_ref_pack(ibuf) ==
    IF Len(ibuf) < 2 THEN Raised
    ELSE IF ibuf[2] # RefPackSignature THEN Raised
    ELSE LET k == IF ibuf[1] >= 128 THEN 4 ELSE 3 IN
         IF Len(ibuf) < 2 + k THEN Raised
         ELSE IF k = 4 /\ ibuf[3] >= 128 THEN Raised
         ELSE LET osize == BigEndian(Slice(ibuf, 2, 2 + k), 0) IN
              RefPackLoop(ibuf, 2 + k, [i \in 1..osize |-> 0], 0)

----------------------------------------------------------------------------
(* DBPFFile.load_from_binary *)

DBPF_MAGIC == <<68, 66, 80, 70>>

STBL_TYPE == 570775514

MinDbpfSize == 96

DeletedCodec == 65504

ZlibCodec == 23106

RefPackCodecs == {65534, 65535}

DBPFHeader(count, offset, size) ==
    [version |-> 2, index_major_version |-> 0, index_count |-> count,
     index_offset |-> offset, index_size |-> size]

\* instance_id = entry_inst_ex << 32 | entry_inst, kept as the pair of words
DBPFEntry(type, group, inst_ex, inst, offset, size) ==
    [type_id |-> type, group_id |-> group, instance_id |-> <<inst_ex, inst>>,
     offset |-> offset, size |-> size]

\* a position read from a 32-bit field: one of 2^31 or more lies past the
\* end of every buffer, where all reads are empty and all writes append
Position(v, data) == IF v < 0 THEN Len(data) ELSE v

\* data[resource_offset:resource_offset+file_size]
Payload(data, resource_offset, file_size) ==
    IF resource_offset < 0 \/ resource_offset >= Len(data) THEN <<>>
    ELSE SubSeq(data, resource_offset + 1,
                resource_offset + Min(file_size, Len(data) - resource_offset))

\* a selection that takes the payload of an unknown codec as stored
Decompress_UnknownAsStored(codec, stbl_data) ==
    IF codec = ZlibCodec THEN zlib_decompress(stbl_data)
    ELSE IF codec \in RefPackCodecs THEN decode_ref_pack(stbl_data)
    ELSE [ok |-> TRUE, data |-> stbl_data]

\* the decompression selected by compression[0]: [ok, data], ok FALSE
\* where the entry is left without a table (an unknown codec, or an
\* exception of the decompressor)
Decompress(codec, stbl_data) ==
    IF codec = 0 THEN [ok |-> TRUE, data |-> stbl_data]
    ELSE IF codec = ZlibCodec THEN zlib_decompress(stbl_data)
    ELSE IF codec \in RefPackCodecs THEN decode_ref_pack(stbl_data)
    ELSE Raised

\* a reading of the flag word that leaves the position on the shared type
IndexFlags_TypeNotSkipped(data, index_offset) ==
    LET pos == Position(index_offset, data)
        flags == FromBytes(Slice(data, pos, pos + 4))
        const_type == flags % 2 = 1
        const_group == (flags \div 2) % 2 = 1
        const_instance_ex == (flags \div 4) % 2 = 1
        p1 == pos + 4
        p2 == p1
        p3 == IF const_group THEN p2 + 4 ELSE p2
    IN  [const_type |-> const_type,
         const_group |-> const_group,
         const_instance_ex |-> const_instance_ex,
         entry_type |-> FromBytes(Slice(data, p1, p1 + 4)),
         entry_group |-> FromBytes(Slice(data, p2, p2 + 4)),
         index_pos |-> pos,
         pos |-> IF const_instance_ex THEN p3 + 4 ELSE p3]

\* the flag word and the shared values that follow it
IndexFlags(data, index_offset) ==
    LET pos == Position(index_offset, data)
        flags == FromBytes(Slice(data, pos, pos + 4))
        const_type == flags % 2 = 1
        const_group == (flags \div 2) % 2 = 1
        const_instance_ex == (flags \div 4) % 2 = 1
        p1 == pos + 4
        p2 == IF const_type THEN p1 + 4 ELSE p1
        p3 == IF const_group THEN p2 + 4 ELSE p2
    IN  [const_type |-> const_type,
         const_group |-> const_group,
         const_instance_ex |-> const_instance_ex,
         entry_type |-> FromBytes(Slice(data, p1, p1 + 4)),
         entry_group |-> FromBytes(Slice(data, p2, p2 + 4)),
         index_pos |-> pos,
         pos |-> IF const_instance_ex THEN p3 + 4 ELSE p3]

\* self.entries.append(entry) and, for a string table, the attempt to load it
StoreEntry(self, data, entry, codec) ==
    LET stbl == Decompress(codec, Payload(data, entry.offset, entry.size))
        table == stbl_load_from_binary(stbl.data)
    IN  [self EXCEPT
           !.entries = Append(@, entry),
           !.string_tables =
               IF entry.type_id = STBL_TYPE /\ stbl.ok /\ table.ok
               THEN DictSet(@, entry.instance_id,
                            [key |-> entry.instance_id, strings |-> table.strings])
               ELSE @]

\* a loop that reads the codec-id pair in every record
RECURSIVE ReadIndex_PairAlways(_, _, _, _, _)
ReadIndex_PairAlways(data, n, pos, c, self) ==
    IF n <= 0 THEN self
    ELSE LET pt == IF c.const_type THEN pos ELSE pos + 4
             entry_type == IF c.const_type THEN c.entry_type
                           ELSE FromBytes(Slice(data, pos, pos + 4))
             pg == IF c.const_group THEN pt ELSE pt + 4
             entry_group == IF c.const_group THEN c.entry_group
                            ELSE FromBytes(Slice(data, pt, pt + 4))
         IN
         IF c.const_instance_ex THEN ReadIndex_PairAlways(data, n - 1, pg, c, self)
         ELSE LET entry_inst_ex == FromBytes(Slice(data, pg, pg + 4))
                  entry_inst == FromBytes(Slice(data, pg + 4, pg + 8))
                  resource_offset == FromBytes(Slice(data, pg + 8, pg + 12))
                  file_size == FromBytes(Slice(data, pg + 12, pg + 16))
                  codec == FromBytesLow(Slice(data, pg + 20, pg + 22))
                  next == pg + 24
                  entry == DBPFEntry(entry_type, entry_group, entry_inst_ex,
                                     entry_inst, resource_offset, Low31(file_size))
              IN  IF codec = DeletedCodec
                  THEN ReadIndex_PairAlways(data, n - 1, next, c, self)
                  ELSE ReadIndex_PairAlways(data, n - 1, next, c,
                                            StoreEntry(self, data, entry, codec))

\* a loop that has no test for the deleted sentinel
RECURSIVE ReadIndex_KeepDeleted(_, _, _, _, _)
ReadIndex_KeepDeleted(data, n, pos, c, self) ==
    IF n <= 0 THEN self
    ELSE LET pt == IF c.const_type THEN pos ELSE pos + 4
             entry_type == IF c.const_type THEN c.entry_type
                           ELSE FromBytes(Slice(data, pos, pos + 4))
             pg == IF c.const_group THEN pt ELSE pt + 4
             entry_group == IF c.const_group THEN c.entry_group
                            ELSE FromBytes(Slice(data, pt, pt + 4))
         IN
         IF c.const_instance_ex THEN ReadIndex_KeepDeleted(data, n - 1, pg, c, self)
         ELSE LET entry_inst_ex == FromBytes(Slice(data, pg, pg + 4))
                  entry_inst == FromBytes(Slice(data, pg + 4, pg + 8))
                  resource_offset == FromBytes(Slice(data, pg + 8, pg + 12))
                  file_size == FromBytes(Slice(data, pg + 12, pg + 16))
                  codec == IF HighBit(file_size)
                           THEN FromBytesLow(Slice(data, pg + 20, pg + 22))
                           ELSE 0
                  next == IF HighBit(file_size) THEN pg + 24 ELSE pg + 20
                  entry == DBPFEntry(entry_type, entry_group, entry_inst_ex,
                                     entry_inst, resource_offset, Low31(file_size))
              IN  ReadIndex_KeepDeleted(data, n - 1, next, c,
                                        StoreEntry(self, data, entry, codec))

\* for i in range(index_count), with n records to go from position pos.
\* With the extended-instance flag set the loop body reads the name
\* index_pos, which load_from_binary never binds: NameError, caught by the
\* handler of the loop body, after the type and group fields were read.
RECURSIVE ReadIndex(_, _, _, _, _)
ReadIndex(data, n, pos, c, self) ==
    IF n <= 0 THEN self
    ELSE LET pt == IF c.const_type THEN pos ELSE pos + 4
             entry_type == IF c.const_type THEN c.entry_type
                           ELSE FromBytes(Slice(data, pos, pos + 4))
             pg == IF c.const_group THEN pt ELSE pt + 4
             entry_group == IF c.const_group THEN c.entry_group
                            ELSE FromBytes(Slice(data, pt, pt + 4))
         IN
         IF c.const_instance_ex THEN ReadIndex(data, n - 1, pg, c, self)
         ELSE LET entry_inst_ex == FromBytes(Slice(data, pg, pg + 4))
                  entry_inst == FromBytes(Slice(data, pg + 4, pg + 8))
                  resource_offset == FromBytes(Slice(data, pg + 8, pg + 12))
                  file_size == FromBytes(Slice(data, pg + 12, pg + 16))
                  codec == IF HighBit(file_size)
                           THEN FromBytesLow(Slice(data, pg + 20, pg + 22))
                           ELSE 0
                  next == IF HighBit(file_size) THEN pg + 24 ELSE pg + 20
                  entry == DBPFEntry(entry_type, entry_group, entry_inst_ex,
                                     entry_inst, resource_offset, Low31(file_size))
              IN  IF codec = DeletedCodec
                  THEN ReadIndex(data, n - 1, next, c, self)
                  ELSE ReadIndex(data, n - 1, next, c,
                                 StoreEntry(self, data, entry, codec))

\* a loader that accepts every user-version pair
dbpf_load_from_binary_AnyUserVersion(self, data) ==
    LET failed == [self EXCEPT !.ret = FALSE]
        index_count == FromBytes(Slice(data, 36, 40))
        index_offset_low == FromBytes(Slice(data, 40, 44))
        index_size == FromBytes(Slice(data, 44, 48))
        index_offset_high == FromBytes(Slice(data, 64, 68))
        index_offset == IF index_offset_high # 0 THEN index_offset_high
                        ELSE index_offset_low
    IN
    IF Len(data) < MinDbpfSize THEN failed
    ELSE IF Slice(data, 0, 4) # DBPF_MAGIC THEN failed
    ELSE IF <<FromBytes(Slice(data, 4, 8)), FromBytes(Slice(data, 8, 12))>> # <<2, 1>>
         THEN failed
    ELSE IF index_offset = 0 THEN failed
    ELSE LET c == IndexFlags(data, index_offset)
             after == ReadIndex(data, index_count, c.pos, c,
                        [self EXCEPT !.header =
                           <<DBPFHeader(index_count, index_offset, index_size)>>])
         IN  [after EXCEPT !.ret = Len(after.string_tables) > 0]

\* self = [header, entries, string_tables] before the call; the result is
\* self after the call with the returned bool as ret. header is <<>> for
\* None and <<h>> for a DBPFHeader. index_count is taken below 2^31.
dbpf_load_from_binary(self, data) ==
    LET failed == [self EXCEPT !.ret = FALSE]
        index_count == FromBytes(Slice(data, 36, 40))
        index_offset_low == FromBytes(Slice(data, 40, 44))
        index_size == FromBytes(Slice(data, 44, 48))
        index_offset_high == FromBytes(Slice(data, 64, 68))
        index_offset == IF index_offset_high # 0 THEN index_offset_high
                        ELSE index_offset_low
    IN
    IF Len(data) < MinDbpfSize THEN failed
    ELSE IF Slice(data, 0, 4) # DBPF_MAGIC THEN failed
    ELSE IF <<FromBytes(Slice(data, 4, 8)), FromBytes(Slice(data, 8, 12))>> # <<2, 1>>
         THEN failed
    ELSE IF <<FromBytes(Slice(data, 12, 16)), FromBytes(Slice(data, 16, 20))>> # <<0, 0>>
         THEN failed
    ELSE IF index_offset = 0 THEN failed
    ELSE LET c == IndexFlags(data, index_offset)
             after == ReadIndex(data, index_count, c.pos, c,
                        [self EXCEPT !.header =
                           <<DBPFHeader(index_count, index_offset, index_size)>>])
         IN  [after EXCEPT !.ret = Len(after.string_tables) > 0]

----------------------------------------------------------------------------
(* DBPFFile.save_to_binary *)

\* first pass: every entry of the string-table type that has a table is
\* encoded, compressed and appended; r = [data, updated_entries]
RECURSIVE AppendTables(_, _, _)
AppendTables(self, es, r) ==
    IF es = <<>> THEN r
    ELSE LET entry == Head(es) IN
         IF entry.type_id = STBL_TYPE /\ entry.instance_id \in Keys(self.string_tables)
         THEN LET stbl_data ==
                      stbl_save_to_binary(Lookup(self.string_tables, entry.instance_id).strings)
                  compressed_data == zlib_compress(stbl_data)
              IN  AppendTables(self, Tail(es),
                      [data |-> r.data \o compressed_data,
                       updated_entries |->
                           DictSet(r.updated_entries, entry.instance_id,
                               [key |-> entry.instance_id,
                                new_offset |-> Len(r.data),
                                new_size |-> Len(compressed_data),
                                decompressed_size |-> Len(stbl_data)])])
         ELSE AppendTables(self, Tail(es), r)

\* the four fields written over the record whose offset field is at pos
RewriteRecord(data, pos, u) ==
    LET d1 == SliceAssign(data, pos, pos + 4, ToBytesLow(u.new_offset, 4))
        d2 == SliceAssign(d1, pos + 4, pos + 8,
                          ToBytes4((u.new_size - 2147483647) - 1))
        d3 == SliceAssign(d2, pos + 8, pos + 12, ToBytesLow(u.decompressed_size, 4))
        d4 == SliceAssign(d3, pos + 12, pos + 14, ToBytesLow(ZlibCodec, 2))
    IN  SliceAssign(d4, pos + 14, pos + 16, ToBytesLow(1, 2))

\* second pass: for i in range(self.header.index_count), n records to go
RECURSIVE RewriteIndex(_, _, _, _, _)
RewriteIndex(data, n, pos, c, updated_entries) ==
    IF n <= 0 THEN data
    ELSE LET pt == IF c.const_type THEN pos ELSE pos + 4
             pg == IF c.const_group THEN pt ELSE pt + 4
             inst_ex == IF c.const_instance_ex
                        THEN FromBytes(Slice(data, c.index_pos + 4, c.index_pos + 8))
                        ELSE FromBytes(Slice(data, pg, pg + 4))
             pi == IF c.const_instance_ex THEN pg ELSE pg + 4
             inst == FromBytes(Slice(data, pi, pi + 4))
             p == pi + 4
             instance_id == <<inst_ex, inst>>
         IN
         IF instance_id \in Keys(updated_entries)
         THEN RewriteIndex(RewriteRecord(data, p, Lookup(updated_entries, instance_id)),
                           n - 1, p + 16, c, updated_entries)
         ELSE RewriteIndex(data, n - 1,
                  IF HighBit(FromBytes(Slice(data, p + 4, p + 8)))
                  THEN p + 16 ELSE p + 12,
                  c, updated_entries)

\* the returned bytes; b'' where the body raises (self.header is None)
dbpf_save_to_binary(self, original_data) ==
    LET r == AppendTables(self, self.entries,
                          [data |-> original_data, updated_entries |-> <<>>])
    IN  IF r.updated_entries = <<>> THEN r.data
        ELSE IF self.header = <<>> THEN <<>>
        ELSE LET h == self.header[1]
                 c == IndexFlags(r.data, h.index_offset)
             IN  RewriteIndex(r.data, h.index_count, c.pos, c, r.updated_entries)

----------------------------------------------------------------------------
(* The .package files that are opened. A file is described by its index    *)
(* flag word, the place of its index and its records; PackageBytes lays    *)
(* the description out in the format load_from_binary parses.              *)

OtherType == 23462796

InstanceA == <<0, 1>>

InstanceB == <<0, 2>>

\* the table held by the string-table resource of an instance
SampleTable(inst) ==
    IF inst = InstanceA
    THEN << StringTableEntry(4097, <<72, 101, 108, 108, 111>>, 0) >>
    ELSE << StringTableEntry(258, <<97>>, 1),
            StringTableEntry(4097, <<66, 121, 101>>, 1) >>

\* codec of a record: "none" has no codec-id pair (bit 31 of the size
\* clear), "zlib" has the pair (0x5A42, 1), "corrupt" has that pair and a
\* payload that does not inflate, "unknown" has an id that names no codec
\* and "deleted" has the id of a deleted record
HasPair(rec) == rec.codec # "none"

UnknownCodec == 4660

CodecId(rec) ==
    IF rec.codec = "unknown" THEN UnknownCodec
    ELSE IF rec.codec = "deleted" THEN DeletedCodec
    ELSE ZlibCodec

\* the bytes of the encoded table of instance A: the header (magic,
\* version 5, one entry, 12 bytes of strings) and the entry of key 0x1001
TableBytesA ==
    <<83, 84, 66, 76, 5, 0, 0, 1, 0, 0, 0, 0, 0, 0, 0, 0, 0, 12, 0, 0, 0,
      1, 16, 0, 0, 0, 5, 0, 72, 101, 108, 108, 111>>

\* the bytes of the encoded table of instance B: the header (two entries,
\* 18 bytes of strings) and the entries of keys 0x102 and 0x1001
TableBytesB ==
    <<83, 84, 66, 76, 5, 0, 0, 2, 0, 0, 0, 0, 0, 0, 0, 0, 0, 18, 0, 0, 0,
      2, 1, 0, 0, 1, 1, 0, 97,
      1, 16, 0, 0, 1, 3, 0, 66, 121, 101>>

\* the zlib streams of the two tables: header, one stored block, Adler-32
DeflatedA ==
    <<120, 1, 1, 33, 0, 222, 255>> \o TableBytesA \o <<46, 11, 3, 82>>

DeflatedB ==
    <<120, 1, 1, 39, 0, 216, 255>> \o TableBytesB \o <<55, 64, 2, 234>>

RawPayload(rec) ==
    IF rec.type # STBL_TYPE THEN <<1, 2, 3, 4, 5>>
    ELSE IF rec.inst = InstanceA THEN TableBytesA ELSE TableBytesB

StoredPayload(rec) ==
    LET z == IF rec.type # STBL_TYPE THEN zlib_compress(RawPayload(rec))
             ELSE IF rec.inst = InstanceA THEN DeflatedA ELSE DeflatedB
    IN
    IF rec.codec = "zlib" THEN z
    ELSE IF rec.codec = "corrupt"
         THEN [z EXCEPT ![Len(z)] = (z[Len(z)] + 1) % 256]
    ELSE RawPayload(rec)

ConstType(pkg) == pkg.flags % 2 = 1

ConstGroup(pkg) == (pkg.flags \div 2) % 2 = 1

ConstInstanceEx(pkg) == (pkg.flags \div 4) % 2 = 1

\* bytes of a record before its offset field
KeyFieldsSize(pkg) ==
    (IF ConstType(pkg) THEN 0 ELSE 4) + (IF ConstGroup(pkg) THEN 0 ELSE 4)
    + (IF ConstInstanceEx(pkg) THEN 0 ELSE 4) + 4

RecordSize(pkg, i) ==
    KeyFieldsSize(pkg) + 12 + (IF HasPair(pkg.recs[i]) THEN 4 ELSE 0)

IndexPrefixSize(pkg) ==
    4 + (IF ConstType(pkg) THEN 4 ELSE 0) + (IF ConstGroup(pkg) THEN 4 ELSE 0)
    + (IF ConstInstanceEx(pkg) THEN 4 ELSE 0)

RECURSIVE RecordsSize(_, _)
RecordsSize(pkg, n) ==
    IF n = 0 THEN 0 ELSE RecordsSize(pkg, n - 1) + RecordSize(pkg, n)

RECURSIVE PayloadsSize(_, _)
PayloadsSize(pkg, n) ==
    IF n = 0 THEN 0
    ELSE PayloadsSize(pkg, n - 1) + Len(StoredPayload(pkg.recs[n]))

IndexSize(pkg) == IndexPrefixSize(pkg) + RecordsSize(pkg, Len(pkg.recs))

IndexOffset(pkg) ==
    IF pkg.index_first THEN MinDbpfSize
    ELSE MinDbpfSize + PayloadsSize(pkg, Len(pkg.recs))

\* where record i starts, where its offset field is, where it ends
RecordStart(pkg, i) ==
    IndexOffset(pkg) + IndexPrefixSize(pkg) + RecordsSize(pkg, i - 1)

OffsetField(pkg, i) == RecordStart(pkg, i) + KeyFieldsSize(pkg)

RecordEnd(pkg, i) == RecordStart(pkg, i) + RecordSize(pkg, i)

\* where the payload of record i lies
PayloadOffset(pkg, i) ==
    MinDbpfSize + (IF pkg.index_first THEN IndexSize(pkg) ELSE 0)
    + PayloadsSize(pkg, i - 1)

PayloadEnd(pkg, i) == PayloadOffset(pkg, i) + Len(StoredPayload(pkg.recs[i]))

Zeros(n) == [i \in 1..n |-> 0]

\* the 96-byte header: magic, version (2, 1), user version (0, 0), the
\* index count at 36, the index offset at 40, the index size at 44
HeaderBytes(pkg) ==
    DBPF_MAGIC \o ToBytesLow(2, 4) \o ToBytesLow(1, 4) \o Zeros(8) \o Zeros(16)
    \o ToBytesLow(Len(pkg.recs), 4) \o ToBytesLow(IndexOffset(pkg), 4)
    \o ToBytesLow(IndexSize(pkg), 4) \o Zeros(48)

RecordBytes(pkg, i) ==
    LET rec == pkg.recs[i]
        size == Len(StoredPayload(rec))
    IN  (IF ConstType(pkg) THEN <<>> ELSE ToBytes4(rec.type))
        \o (IF ConstGroup(pkg) THEN <<>> ELSE ToBytesLow(i, 4))
        \o (IF ConstInstanceEx(pkg) THEN <<>> ELSE ToBytes4(rec.inst[1]))
        \o ToBytes4(rec.inst[2])
        \o ToBytesLow(PayloadOffset(pkg, i), 4)
        \o (IF HasPair(rec) THEN ToBytes4((size - 2147483647) - 1)
            ELSE ToBytesLow(size, 4))
        \o ToBytesLow(Len(RawPayload(rec)), 4)
        \o (IF HasPair(rec) THEN ToBytesLow(CodecId(rec), 2) \o ToBytesLow(1, 2)
            ELSE <<>>)

RECURSIVE RecordsBytes(_, _)
RecordsBytes(pkg, n) ==
    IF n = 0 THEN <<>> ELSE RecordsBytes(pkg, n - 1) \o RecordBytes(pkg, n)

RECURSIVE PayloadsBytes(_, _)
PayloadsBytes(pkg, n) ==
    IF n = 0 THEN <<>>
    ELSE PayloadsBytes(pkg, n - 1) \o StoredPayload(pkg.recs[n])

IndexBytes(pkg) ==
    ToBytesLow(pkg.flags, 4)
    \o (IF ConstType(pkg) THEN ToBytes4(pkg.recs[1].type) ELSE <<>>)
    \o (IF ConstGroup(pkg) THEN Zeros(4) ELSE <<>>)
    \o (IF ConstInstanceEx(pkg) THEN Zeros(4) ELSE <<>>)
    \o RecordsBytes(pkg, Len(pkg.recs))

\* the file as it was written
ArchiveBytes(pkg) ==
    HeaderBytes(pkg)
    \o (IF pkg.index_first
        THEN IndexBytes(pkg) \o PayloadsBytes(pkg, Len(pkg.recs))
        ELSE PayloadsBytes(pkg, Len(pkg.recs)) \o IndexBytes(pkg))

\* what became of the file before it is opened: cut below the header size,
\* or one byte of the magic, of the format-version pair (major, minor) or
\* of the user-version pair changed
Damages == {"none", "short", "magic", "major", "minor", "user_version"}

Damaged(data, damage) ==
    IF damage = "short" THEN Slice(data, 0, MinDbpfSize - 1)
    ELSE IF damage = "magic" THEN [data EXCEPT ![1] = 88]
    ELSE IF damage = "major" THEN [data EXCEPT ![5] = 3]
    ELSE IF damage = "minor" THEN [data EXCEPT ![9] = 0]
    ELSE IF damage = "user_version" THEN [data EXCEPT ![13] = 1]
    ELSE data

PackageBytes(pkg) == Damaged(ArchiveBytes(pkg), pkg.damage)

\* the string table of instance A comes stored or deflated; the one of
\* instance B comes in every codec; resources of another type come stored
RecordKinds ==
    [type : {STBL_TYPE}, inst : {InstanceA}, codec : {"none", "zlib"}]
    \cup [type : {STBL_TYPE}, inst : {InstanceB},
          codec : {"none", "zlib", "corrupt", "unknown", "deleted"}]
    \cup [type : {OtherType}, inst : {InstanceA, InstanceB}, codec : {"none"}]

FlagWords == {0, 1}

\* the files of n index records. With the type flag set the records share
\* the type of the first one; the damaged files are those of at most one
\* record.
Packages(n) ==
    { pkg \in [flags : FlagWords, index_first : BOOLEAN,
               recs : [1..n -> RecordKinds], damage : Damages] :
        /\ ConstType(pkg) =>
              /\ pkg.recs # <<>>
              /\ \A i \in 1..Len(pkg.recs) : pkg.recs[i].type = pkg.recs[1].type
        /\ pkg.damage # "none" => Len(pkg.recs) <= 1 }

NoPackage == [flags |-> 0, index_first |-> TRUE, recs |-> <<>>, damage |-> "none"]

\* the texts typed into the edit dialog: "a\r\nb" and a text that
\* StringTableFile.save_to_binary cannot encode (a lone surrogate)
EditTexts == { <<97, 13, 10, 98>>, <<55296>> }

----------------------------------------------------------------------------
(* The table codec session: a table is filled and edited, encoded with     *)
(* save_to_binary, the buffer is possibly damaged on its way through a     *)
(* file, and decoded with load_from_binary on a new StringTableFile.       *)

\* keys: 0x1001, a smaller key whose first byte is larger (0x0102), and a
\* key with bit 31 set (0xFFFFFFFE)
KeySet == {4097, 258, -2}

\* texts: empty, "Hello", "a\r\nb", a lone "\r", "e-acute \n" and a lone
\* surrogate (not encodable)
TextSet ==
    { <<>>, <<72, 101, 108, 108, 111>>, <<97, 13, 10, 98>>, <<13>>,
      <<233, 10>>, <<55296>> }

FlagSet == {0, 1}

\* offsets of the magic, the version and the compression flag, and of the
\* first text byte of the first entry; the bytes written over them (0xFF is
\* no byte of a UTF-8 text)
TamperOffsets == 0..6 \cup {28}

TamperBytes == {1, 255}

\* sizes below the header, and sizes that cut the buffer after the header,
\* inside the first key and behind a first entry of 0 or 5 text bytes
TruncatedSizes == {0, 3, 19, 20, 21, 25, 28, 33}

InitTable ==
    /\ strings = <<>>
    /\ stbl_bytes = <<>>
    /\ tampered = FALSE
    /\ loaded = [ok |-> FALSE, strings |-> <<>>]
    /\ stage = "edit"

\* self.package_file = DBPFFile(); nothing is open
InitPackage ==
    /\ package = NoPackage
    /\ current_file_data = <<>>
    /\ header = <<>>
    /\ entries = <<>>
    /\ string_tables = <<>>
    /\ tables_at_load = <<>>
    /\ load_ok = FALSE
    /\ string_table = <<>>
    /\ output = <<>>
    /\ pc = "closed"

\* decode_ref_pack has not been called
InitNoRefPack ==
    /\ ref_ibuf = <<>>
    /\ ref_result = Raised
    /\ ref_done = FALSE

\* ModTranslator.__init__: no batch was started
InitNoBatch ==
    /\ batch_pc = "idle"
    /\ active_workers = 0
    /\ workers = [i \in 1..MaxChunks |-> "none"]
    /\ signals = <<>>
    /\ completion_shown = FALSE

InitStbl == InitTable /\ InitPackage /\ InitNoRefPack /\ InitNoBatch

\* self.strings[key] = StringTableEntry(...) for a new key
InsertString(k, v, f) ==
    /\ stage = "edit"
    /\ k \notin Keys(strings)
    /\ Len(strings) < MaxEntries
    /\ strings' = DictSet(strings, k, StringTableEntry(k, v, f))
    /\ UNCHANGED <<stbl_bytes, tampered, loaded, stage>>
    /\ UNCHANGED pkgVars
    /\ UNCHANGED refVars
    /\ UNCHANGED batchVars

\* self.string_table.strings[key].value = edited_text
EditString(k, v) ==
    /\ stage = "edit"
    /\ k \in Keys(strings)
    /\ Lookup(strings, k).value # v
    /\ strings' = DictSet(strings, k, [Lookup(strings, k) EXCEPT !.value = v])
    /\ UNCHANGED <<stbl_bytes, tampered, loaded, stage>>
    /\ UNCHANGED pkgVars
    /\ UNCHANGED refVars
    /\ UNCHANGED batchVars

\* data = self.string_table.save_to_binary()
StblSave ==
    /\ stage = "edit"
    /\ stbl_bytes' = stbl_save_to_binary(strings)
    /\ tampered' = FALSE
    /\ stage' = "saved"
    /\ UNCHANGED <<strings, loaded>>
    /\ UNCHANGED pkgVars
    /\ UNCHANGED refVars
    /\ UNCHANGED batchVars

\* the file that is opened next holds another byte at offset i
Tamper(i, b) ==
    /\ stage = "saved"
    /\ ~tampered
    /\ i < Len(stbl_bytes)
    /\ stbl_bytes[i + 1] # b
    /\ stbl_bytes' = [stbl_bytes EXCEPT ![i + 1] = b]
    /\ tampered' = TRUE
    /\ UNCHANGED <<strings, loaded, stage>>
    /\ UNCHANGED pkgVars
    /\ UNCHANGED refVars
    /\ UNCHANGED batchVars

\* the file that is opened next is cut to n bytes
Truncate(n) ==
    /\ stage = "saved"
    /\ ~tampered
    /\ n < Len(stbl_bytes)
    /\ stbl_bytes' = Slice(stbl_bytes, 0, n)
    /\ tampered' = TRUE
    /\ UNCHANGED <<strings, loaded, stage>>
    /\ UNCHANGED pkgVars
    /\ UNCHANGED refVars
    /\ UNCHANGED batchVars

\* self.string_table = StringTableFile(); self.string_table.load_from_binary(data)
StblLoad ==
    /\ stage = "saved"
    /\ loaded' = stbl_load_from_binary(stbl_bytes)
    /\ stage' = "loaded"
    /\ UNCHANGED <<strings, stbl_bytes, tampered>>
    /\ UNCHANGED pkgVars
    /\ UNCHANGED refVars
    /\ UNCHANGED batchVars

NextStbl ==
    \/ \E k \in KeySet, v \in TextSet, f \in FlagSet : InsertString(k, v, f)
    \/ \E k \in KeySet, v \in TextSet : EditString(k, v)
    \/ StblSave
    \/ \E i \in TamperOffsets, b \in TamperBytes : Tamper(i, b)
    \/ \E n \in TruncatedSizes : Truncate(n)
    \/ StblLoad

SpecStbl == InitStbl /\ [][NextStbl]_vars

----------------------------------------------------------------------------
(* The package session: a .package file is opened (load_from_binary on the *)
(* one DBPFFile of the editor), texts are edited, the package is saved.    *)

Self == [header |-> header, entries |-> entries,
         string_tables |-> string_tables, ret |-> FALSE]

\* a merge in which the entry of a later table replaces the one taken before
RECURSIVE MergeStrings_LastWins(_, _)
MergeStrings_LastWins(merged, strs) ==
    IF strs = <<>> THEN merged
    ELSE MergeStrings_LastWins(DictSet(merged, Head(strs).key, Head(strs)),
                               Tail(strs))

\* for key, entry in stbl.strings.items(): a key that the merged table
\* already holds is left alone
RECURSIVE MergeStrings(_, _)
MergeStrings(merged, strs) ==
    IF strs = <<>> THEN merged
    ELSE MergeStrings(IF Head(strs).key \in Keys(merged) THEN merged
                      ELSE Append(merged, Head(strs)),
                      Tail(strs))

\* for instance_id, stbl in self.package_file.string_tables.items()
RECURSIVE MergeTables(_, _)
MergeTables(merged, tables) ==
    IF tables = <<>> THEN merged
    ELSE MergeTables(MergeStrings(merged, Head(tables).strings), Tail(tables))

\* open_file on a .package file: the file is read and loaded into the one
\* DBPFFile; when load_from_binary returns True the tables are merged into
\* a new session table
OpenFile(pkg) ==
    /\ pc = "closed"
    /\ LET data == PackageBytes(pkg)
           r == dbpf_load_from_binary(Self, data)
       IN  /\ current_file_data' = data
           /\ header' = r.header
           /\ entries' = r.entries
           /\ string_tables' = r.string_tables
           /\ tables_at_load' = r.string_tables
           /\ load_ok' = r.ret
           /\ string_table' = IF r.ret THEN MergeTables(<<>>, r.string_tables)
                              ELSE string_table
    /\ package' = pkg
    /\ pc' = "open"
    /\ UNCHANGED output
    /\ UNCHANGED stblVars
    /\ UNCHANGED refVars
    /\ UNCHANGED batchVars

\* the table of the package whose entry object for key k the merged table
\* holds: the first one, in mapping order, that has the key
Owner(tables, k) ==
    CHOOSE i \in 1..Len(tables) :
        /\ k \in Keys(tables[i].strings)
        /\ \A j \in 1..(i - 1) : k \notin Keys(tables[j].strings)

\* the edit dialog on the row of key k: the value of the merged table's
\* entry is replaced; the entry is the entry object of its owner's table
EditTable(k, v) ==
    /\ pc = "open"
    /\ k \in Keys(string_table)
    /\ Lookup(string_table, k).value # v
    /\ string_table' =
          DictSet(string_table, k, [Lookup(string_table, k) EXCEPT !.value = v])
    /\ string_tables' =
          [string_tables EXCEPT ![Owner(string_tables, k)].strings =
              DictSet(@, k, [Lookup(@, k) EXCEPT !.value = v])]
    /\ UNCHANGED <<package, current_file_data, header, entries, tables_at_load,
                   load_ok, output, pc>>
    /\ UNCHANGED stblVars
    /\ UNCHANGED refVars
    /\ UNCHANGED batchVars

\* for key in stbl.strings.keys(): if key in self.string_table.strings:
\*     stbl.strings[key] = self.string_table.strings[key]
Refresh(tables, merged) ==
    [t \in 1..Len(tables) |->
        [tables[t] EXCEPT !.strings =
            [i \in 1..Len(@) |->
                IF @[i].key \in Keys(merged) THEN Lookup(merged, @[i].key)
                ELSE @[i]]]]

\* save_file on a .package file. The rows of the grid hold the texts of the
\* merged table, so writing them back changes nothing; every table of the
\* package is refreshed from the merged table, then the package is
\* assembled from the bytes that were read at open.
SaveFile ==
    /\ pc = "open"
    /\ LET refreshed == Refresh(string_tables, string_table) IN
       /\ string_tables' = refreshed
       /\ output' = dbpf_save_to_binary([Self EXCEPT !.string_tables = refreshed],
                                        current_file_data)
    /\ pc' = "saved"
    /\ UNCHANGED <<package, current_file_data, header, entries, tables_at_load,
                   load_ok, string_table>>
    /\ UNCHANGED stblVars
    /\ UNCHANGED refVars
    /\ UNCHANGED batchVars

Init == InitTable /\ InitPackage /\ InitNoRefPack /\ InitNoBatch

Next ==
    \/ \E n \in 0..MaxRecords : \E pkg \in Packages(n) : OpenFile(pkg)
    \/ \E k \in KeySet, v \in EditTexts : EditTable(k, v)
    \/ SaveFile

Spec == Init /\ [][Next]_vars

----------------------------------------------------------------------------
(* The package session on files of every index flag word: the three flag   *)
(* bits in every combination, over string tables stored with and without   *)
(* the codec-id pair and a resource of another type.                       *)

AllFlagWords == 0..7

FlagRecordKinds ==
    [type : {STBL_TYPE}, inst : {InstanceA, InstanceB}, codec : {"none", "zlib"}]
    \cup [type : {OtherType}, inst : {InstanceA}, codec : {"none"}]

FlagPackages(n) ==
    { pkg \in [flags : AllFlagWords, index_first : BOOLEAN,
               recs : [1..n -> FlagRecordKinds], damage : {"none"}] :
        ConstType(pkg) =>
            /\ pkg.recs # <<>>
            /\ \A i \in 1..Len(pkg.recs) : pkg.recs[i].type = pkg.recs[1].type }

NextFlags ==
    \/ \E n \in 0..MaxRecords : \E pkg \in FlagPackages(n) : OpenFile(pkg)
    \/ \E k \in KeySet, v \in EditTexts : EditTable(k, v)
    \/ SaveFile

SpecFlags == Init /\ [][NextFlags]_vars

----------------------------------------------------------------------------
(* The editor opens one file after the other: every open_file loads into    *)
(* the DBPFFile that ModTranslator.__init__ made.                           *)

\* the files opened in a row: no record or one record, a string table
\* stored or deflated or a resource of another type, the index after the
\* payload; whole, or with a wrong magic
ReopenPackages ==
    [flags : {0}, index_first : {FALSE},
     recs : {<<>>} \cup
            { <<r>> : r \in { [type |-> STBL_TYPE, inst |-> InstanceA, codec |-> "none"],
                              [type |-> STBL_TYPE, inst |-> InstanceB, codec |-> "zlib"],
                              [type |-> OtherType, inst |-> InstanceA, codec |-> "none"] } },
     damage : {"none", "magic"}]

\* open_file while a file is open; as many files as leave the entry list
\* within MaxRecords entries before the call
ReopenFile(pkg) ==
    /\ pc # "closed"
    /\ Len(entries) <= MaxRecords
    /\ LET data == PackageBytes(pkg)
           r == dbpf_load_from_binary(Self, data)
       IN  /\ current_file_data' = data
           /\ header' = r.header
           /\ entries' = r.entries
           /\ string_tables' = r.string_tables
           /\ tables_at_load' = r.string_tables
           /\ load_ok' = r.ret
           /\ string_table' = IF r.ret THEN MergeTables(<<>>, r.string_tables)
                              ELSE string_table
    /\ package' = pkg
    /\ pc' = "open"
    /\ UNCHANGED output
    /\ UNCHANGED stblVars
    /\ UNCHANGED refVars
    /\ UNCHANGED batchVars

NextReopen ==
    \/ \E pkg \in ReopenPackages : OpenFile(pkg)
    \/ \E pkg \in ReopenPackages : ReopenFile(pkg)

SpecReopen == Init /\ [][NextReopen]_vars

----------------------------------------------------------------------------
(* decode_ref_pack as a function of its input: a buffer made of a header   *)
(* (flag byte, signature byte, three or four size bytes) and of up to      *)
(* MaxBody bytes of opcodes and literals, or a buffer that ends inside the *)
(* header, is decoded once.                                                *)

\* ibuf[0]: bit 7 selects four size bytes instead of three
FlagBytes == {16, 144}

\* ibuf[1]: the signature and a byte that is not
SignatureBytes == {RefPackSignature, 250}

\* the values of the size field
DeclaredSizes == {0, 2, 5}

\* the bytes after the header, as control bytes: 0, 1, 2 and 64 open a
\* two-byte opcode with a copy of 3, 128 a three-byte opcode, 224 a run of
\* four literals, 253 one last literal; the same bytes serve as operands
\* and as literals
BodyBytes == {0, 1, 2, 64, 128, 224, 253}

RefPackHeader(f, s, n) ==
    <<f, s>> \o (IF f >= 128 THEN <<0>> ELSE <<>>) \o <<0, 0, n>>

RefPackHeaders ==
    { RefPackHeader(f, s, n) : f \in FlagBytes, s \in SignatureBytes,
                               n \in DeclaredSizes }

RefPackInputs ==
    { h \o b : h \in RefPackHeaders,
               b \in UNION { [1..n -> BodyBytes] : n \in 0..MaxBody } }
    \cup { Slice(h, 0, n) : h \in RefPackHeaders, n \in 0..4 }

InitRefPack ==
    /\ InitTable /\ InitPackage /\ InitNoBatch
    /\ ref_ibuf \in RefPackInputs
    /\ ref_result = Raised
    /\ ref_done = FALSE

\* decompressed_data = decode_ref_pack(stbl_data)
DecodeRefPack ==
    /\ ~ref_done
    /\ ref_result' = decode_ref_pack(ref_ibuf)
    /\ ref_done' = TRUE
    /\ UNCHANGED ref_ibuf
    /\ UNCHANGED stblVars
    /\ UNCHANGED pkgVars
    /\ UNCHANGED batchVars

NextRefPack == DecodeRefPack

SpecRefPack == InitRefPack /\ [][NextRefPack]_vars

----------------------------------------------------------------------------
(* Reading the claims off the buffer: the entries of an encoded table as   *)
(* they lie in the buffer, and the normalization the specification names.  *)

TableHeaderSize == 21

\* the entries that lie in buf from position pos on, in buffer order
RECURSIVE EmittedFrom(_, _)
EmittedFrom(buf, pos) ==
    IF pos + EntryHeaderSize > Len(buf) THEN <<>>
    ELSE LET n == buf[pos + 6] + 256 * buf[pos + 7] IN
         << [key |-> SubSeq(buf, pos + 1, pos + 4),
             flag |-> buf[pos + 5],
             text |-> SubSeq(buf, pos + 8, pos + 7 + n)] >>
         \o EmittedFrom(buf, pos + EntryHeaderSize + n)

Emitted(buf) == EmittedFrom(buf, TableHeaderSize)

\* carriage returns removed, line feeds replaced by backslash-n
RECURSIVE Normalized(_)
Normalized(text) ==
    IF text = <<>> THEN <<>>
    ELSE IF Head(text) = 13 THEN Normalized(Tail(text))
    ELSE IF Head(text) = 10 THEN <<92, 110>> \o Normalized(Tail(text))
    ELSE <<Head(text)>> \o Normalized(Tail(text))

\* the table that decoding must give back for the table d
SameUpToNormalization(got, d) ==
    /\ Keys(got) = Keys(d)
    /\ Len(got) = Len(d)
    /\ \A k \in Keys(d) :
          /\ Lookup(got, k).flags = Lookup(d, k).flags
          /\ Lookup(got, k).value = Normalized(Lookup(d, k).value)

Encoded == stage \in {"saved", "loaded"} /\ ~tampered /\ stbl_bytes # <<>>

\* the byte arrays of two keys, compared as little-endian unsigned integers
KeyBytesLess(a, b) ==
    \E i \in 1..4 : a[i] < b[i] /\ \A j \in (i + 1)..4 : a[j] = b[j]

Reorderings(d) ==
    { [i \in 1..Len(d) |-> d[p[i]]] :
        p \in {q \in [1..Len(d) -> 1..Len(d)] :
                 \A i, j \in 1..Len(d) : q[i] = q[j] => i = j} }

----------------------------------------------------------------------------
(* The batch translation: auto_translate_all cuts the texts into chunks and *)
(* starts one TranslateWorker per chunk on the thread pool; the signals of  *)
(* the workers are queued to the window, whose slots run one at a time.     *)

\* auto_translate_all with n chunks. The counter is set to the number of
\* chunks; the loop starts a worker per chunk and breaks at the first
\* chunk for which progress.wasCanceled() is true: started is the number
\* of chunks before that one, n when there is none.
auto_translate_all(n, started) ==
    /\ batch_pc = "idle"
    /\ active_workers' = n
    /\ workers' = [i \in 1..MaxChunks |-> IF i <= started THEN "started" ELSE "none"]
    /\ completion_shown' = FALSE
    /\ batch_pc' = "started"
    /\ UNCHANGED signals
    /\ UNCHANGED stblVars
    /\ UNCHANGED pkgVars
    /\ UNCHANGED refVars

\* TranslateWorker.run finds the DeepL module missing: it emits error and
\* goes on with the other service
WorkerWarns(i) ==
    /\ workers[i] = "started"
    /\ workers' = [workers EXCEPT ![i] = "warned"]
    /\ signals' = Append(signals, "error")
    /\ UNCHANGED <<batch_pc, active_workers, completion_shown>>
    /\ UNCHANGED stblVars
    /\ UNCHANGED pkgVars
    /\ UNCHANGED refVars

\* TranslateWorker.run ends by an exception, or without an API key: it
\* emits error and returns
WorkerFails(i) ==
    /\ workers[i] \in {"started", "warned"}
    /\ workers' = [workers EXCEPT ![i] = "ended"]
    /\ signals' = Append(signals, "error")
    /\ UNCHANGED <<batch_pc, active_workers, completion_shown>>
    /\ UNCHANGED stblVars
    /\ UNCHANGED pkgVars
    /\ UNCHANGED refVars

\* TranslateWorker.run went through its texts: it emits finished
WorkerEnds(i) ==
    /\ workers[i] \in {"started", "warned"}
    /\ workers' = [workers EXCEPT ![i] = "ended"]
    /\ signals' = Append(signals, "finished")
    /\ UNCHANGED <<batch_pc, active_workers, completion_shown>>
    /\ UNCHANGED stblVars
    /\ UNCHANGED pkgVars
    /\ UNCHANGED refVars

\* the slot of the finished signal
worker_finished ==
    /\ signals # <<>> /\ Head(signals) = "finished"
    /\ signals' = Tail(signals)
    /\ active_workers' = active_workers - 1
    /\ completion_shown' = IF active_workers - 1 = 0 THEN TRUE ELSE completion_shown
    /\ UNCHANGED <<batch_pc, workers>>
    /\ UNCHANGED stblVars
    /\ UNCHANGED pkgVars
    /\ UNCHANGED refVars

\* the slot of the error signal: a message box
worker_error ==
    /\ signals # <<>> /\ Head(signals) = "error"
    /\ signals' = Tail(signals)
    /\ UNCHANGED <<batch_pc, active_workers, workers, completion_shown>>
    /\ UNCHANGED stblVars
    /\ UNCHANGED pkgVars
    /\ UNCHANGED refVars

NextBatch ==
    \/ \E n \in 1..MaxChunks : \E started \in 0..n : auto_translate_all(n, started)
    \/ \E i \in 1..MaxChunks : WorkerWarns(i)
    \/ \E i \in 1..MaxChunks : WorkerFails(i)
    \/ \E i \in 1..MaxChunks : WorkerEnds(i)
    \/ worker_finished
    \/ worker_error

SpecBatch == Init /\ [][NextBatch]_vars

----------------------------------------------------------------------------
(* Claims on the table codec, checked under SpecStbl *)

\* C6 as stated: for ANY table T, decoding the encoding of T succeeds and
\* gives the keys of T, each with T's flag and T's normalized text.
C6_RoundTripAnyTable ==
    (stage = "loaded" /\ ~tampered) =>
        (loaded.ok /\ SameUpToNormalization(loaded.strings, strings))

\* C6 amended: for any table T that save_to_binary encodes (its result is
\* not the failure value b''), decoding the encoding succeeds and gives the
\* keys of T, each with T's flag and T's normalized text; for a table it
\* cannot encode, save_to_binary returns b'' and load_from_binary rejects it.
C6_RoundTripEncodable ==
    (stage = "loaded" /\ ~tampered) =>
        IF stbl_bytes # <<>>
        THEN loaded.ok /\ SameUpToNormalization(loaded.strings, strings)
        ELSE ~loaded.ok /\ loaded.strings = <<>>

\* a table of two entries, one with a carriage return and a line feed in
\* its text and a flag other than 0, was encoded and decoded
C6_Witness ==
    /\ stage = "loaded" /\ ~tampered /\ loaded.ok
    /\ Len(strings) = 2
    /\ \E i \in 1..2 : strings[i].value = <<97, 13, 10, 98>> /\ strings[i].flags = 1

\* C7: the entries of the encoded table lie in strictly ascending key
\* order, and the encoding is the same for every insertion order of the
\* same entries.
C7_AscendingKeyOrder ==
    Encoded =>
        /\ \A i \in 1..(Len(Emitted(stbl_bytes)) - 1) :
              KeyBytesLess(Emitted(stbl_bytes)[i].key, Emitted(stbl_bytes)[i + 1].key)
        /\ Len(Emitted(stbl_bytes)) = Len(strings)
        /\ \A d \in Reorderings(strings) : stbl_save_to_binary(d) = stbl_bytes

\* a table whose insertion order is not its key order was encoded
C7_Witness ==
    /\ Encoded
    /\ Len(strings) = 2
    /\ ULess(strings[2].key, strings[1].key)

\* C8: no encoded text holds a carriage return or a raw line feed; it is
\* the UTF-8 form of the value with every carriage return removed and
\* every line feed replaced by backslash, n.
C8_NoRawLineBreaks ==
    Encoded =>
        \A i \in 1..Len(Emitted(stbl_bytes)) :
            LET e == Emitted(stbl_bytes)[i] IN
            /\ \A j \in 1..Len(e.text) : e.text[j] # 13 /\ e.text[j] # 10
            /\ \E k \in Keys(strings) :
                  /\ ToBytes4(k) = e.key
                  /\ e.text = utf8_encode(Normalized(Lookup(strings, k).value))

\* a table with a text that holds both characters was encoded
C8_Witness ==
    /\ Encoded
    /\ \E i \in 1..Len(strings) : strings[i].value = <<97, 13, 10, 98>>

RECURSIVE SumOfEntrySizes(_)
SumOfEntrySizes(es) ==
    IF es = <<>> THEN 0
    ELSE 7 + Len(Head(es).text) + SumOfEntrySizes(Tail(es))

\* C9: the total-length field (bytes 17..20) is the sum over the entries
\* of 7 plus the byte length of the encoded text, which is the number of
\* bytes that follow the 21-byte header.
C9_TotalLength ==
    Encoded =>
        /\ FromBytes(Slice(stbl_bytes, 17, 21)) = SumOfEntrySizes(Emitted(stbl_bytes))
        /\ FromBytes(Slice(stbl_bytes, 17, 21)) = Len(stbl_bytes) - 21
        /\ Len(Emitted(stbl_bytes)) = Cardinality(Keys(strings))

\* a table with a two-byte character and an empty text was encoded
C9_Witness ==
    /\ Encoded
    /\ \E i, j \in 1..Len(strings) :
          strings[i].value = <<233, 10>> /\ strings[j].value = <<13>>

\* C10: a buffer whose first 4 bytes are not 'STBL', or whose 2-byte
\* little-endian version is not 5, is rejected and leaves the table empty.
C10_BadMagicOrVersionFails ==
    (stage = "loaded"
       /\ (Slice(stbl_bytes, 0, 4) # <<83, 84, 66, 76>>
           \/ Slice(stbl_bytes, 4, 6) # <<5, 0>>)) =>
        (~loaded.ok /\ loaded.strings = <<>>)

\* a buffer of a table with an entry, right but for the high byte of its
\* version, was decoded
C10_Witness ==
    /\ stage = "loaded" /\ tampered
    /\ Len(strings) > 0
    /\ Len(stbl_bytes) > 21
    /\ Slice(stbl_bytes, 0, 5) = <<83, 84, 66, 76, 5>>
    /\ stbl_bytes[6] = 1

\* the buffer that save_to_binary gave for the table of the session
Original == stbl_save_to_binary(strings)

\* where the entries of buf lie, from position pos on: [from, to) of each
RECURSIVE SpansFrom(_, _)
SpansFrom(buf, pos) ==
    IF pos + EntryHeaderSize > Len(buf) THEN <<>>
    ELSE LET to == pos + EntryHeaderSize + buf[pos + 6] + 256 * buf[pos + 7] IN
         << [from |-> pos, to |-> to] >> \o SpansFrom(buf, to)

\* the entries of the buffer orig
Spans(orig) == SpansFrom(orig, TableHeaderSize)

\* the entry at span e of orig reached the loader as it was written
Intact(orig, e) ==
    /\ e.to <= Len(stbl_bytes)
    /\ Slice(stbl_bytes, e.from, e.to) = Slice(orig, e.from, e.to)

\* the header, and the key, flag and length of every entry that the buffer
\* still holds, are as written in orig: the damage is in texts or is a cut
FramingKept(orig) ==
    /\ Len(stbl_bytes) >= TableHeaderSize
    /\ Slice(stbl_bytes, 0, TableHeaderSize) = Slice(orig, 0, TableHeaderSize)
    /\ LET spans == Spans(orig) IN
       \A i \in 1..Len(spans) :
          spans[i].from + EntryHeaderSize <= Len(stbl_bytes) =>
              Slice(stbl_bytes, spans[i].from, spans[i].from + EntryHeaderSize)
                  = Slice(orig, spans[i].from, spans[i].from + EntryHeaderSize)

\* the entry of span e of orig is in the loaded table with its key, flag
\* and text
DecodedAsWritten(orig, e) ==
    LET key == FromBytes(Slice(orig, e.from, e.from + 4)) IN
    /\ key \in Keys(loaded.strings)
    /\ Lookup(loaded.strings, key).flags = orig[e.from + 5]
    /\ Lookup(loaded.strings, key).value
           = utf8_decode(Slice(orig, e.from + EntryHeaderSize, e.to))

----------------------------------------------------------------------------
(* Claims on DBPFFile.load_from_binary, checked under Spec *)

\* the file was opened: load_from_binary has run on its bytes
Opened == pc # "closed"

\* C12: for a buffer shorter than the 96-byte header, or not starting with
\* 'DBPF', or with a format-version pair other than (2, 1), or with a
\* user-version pair other than (0, 0), load_from_binary returns False and
\* produces no model: no header, no entry, no table.
C12_BadHeaderFails ==
    (Opened /\ package.damage # "none") =>
        /\ ~load_ok
        /\ header = <<>>
        /\ entries = <<>>
        /\ string_tables = <<>>

\* a file of one stored string table whose user version was changed
C12_Witness ==
    /\ pc = "open" /\ package.damage = "user_version"
    /\ Len(package.recs) = 1
    /\ package.recs[1].type = STBL_TYPE /\ package.recs[1].codec = "none"
    /\ Len(current_file_data) > MinDbpfSize
    /\ ~load_ok

\* the index records of the opened file
Records == 1..Len(package.recs)

\* load_from_binary went through the header tests
Parsed == Opened /\ package.damage = "none"

Deleted(rec) == rec.codec = "deleted"

\* a record whose payload is an encoded table in a codec that load knows
Decodable(rec) == rec.type = STBL_TYPE /\ rec.codec \in {"none", "zlib"}

\* the records of the file that are not deleted, as indices in file order
RECURSIVE KeptFrom(_, _)
KeptFrom(pkg, i) ==
    IF i > Len(pkg.recs) THEN <<>>
    ELSE (IF Deleted(pkg.recs[i]) THEN <<>> ELSE <<i>>) \o KeptFrom(pkg, i + 1)

\* the entry that record i of the file describes: its type, the group and
\* instance words of the record, the place and the size of its payload
ExpectedEntry(pkg, i) ==
    DBPFEntry(pkg.recs[i].type, i, pkg.recs[i].inst[1], pkg.recs[i].inst[2],
              PayloadOffset(pkg, i), Len(StoredPayload(pkg.recs[i])))

\* the entry list holds the records that are not deleted, in file order
EntriesAsExpected ==
    LET kept == KeptFrom(package, 1) IN
    entries = [k \in 1..Len(kept) |-> ExpectedEntry(package, kept[k])]

\* a table is in the mapping for every decodable record, and for no
\* instance id without one
TablesAsExpected ==
    Keys(string_tables) =
        { package.recs[i].inst : i \in { j \in Records : Decodable(package.recs[j]) } }

\* C13: when the table of one index entry cannot be decompressed or
\* decoded, load_from_binary still succeeds and keeps the entry in the entry
\* list without a table, also when it is the only string-table entry.
C13_DecodeFailureNotFatal ==
    (Parsed /\ \E i \in Records : package.recs[i].codec = "corrupt") =>
        /\ load_ok
        /\ EntriesAsExpected
        /\ TablesAsExpected

\* C14: a string-table record with a codec id that names no codec is
\* recorded in the entry list, gets no table, and the records after it are
\* parsed: their entries are recorded and their tables stored.
C14_UnknownCodecSkipsTable ==
    (Parsed /\ \E i \in Records : package.recs[i].codec = "unknown") =>
        /\ EntriesAsExpected
        /\ TablesAsExpected

\* a record of an unknown codec is followed by a table that was loaded
C14_Witness ==
    /\ pc = "open" /\ Parsed /\ Len(package.recs) = 2
    /\ package.recs[1].codec = "unknown"
    /\ Decodable(package.recs[2]) /\ package.recs[2].inst = InstanceA
    /\ Len(entries) = 2
    /\ Keys(string_tables) = {InstanceA}
    /\ load_ok

\* C15: a record whose codec id is the deleted sentinel 0xFFE0 is not in
\* the entry list and gets no table; the records after it are parsed.
C15_DeletedRecordSkipped ==
    (Parsed /\ \E i \in Records : Deleted(package.recs[i])) =>
        /\ \A k \in 1..Len(entries) :
              \A i \in Records :
                  Deleted(package.recs[i]) => entries[k].offset # PayloadOffset(package, i)
        /\ Len(entries) = Cardinality({ i \in Records : ~Deleted(package.recs[i]) })
        /\ \A i \in Records :
              (i > 1 /\ Deleted(package.recs[i - 1]) /\ ~Deleted(package.recs[i])) =>
                  /\ \E k \in 1..Len(entries) : entries[k] = ExpectedEntry(package, i)
                  /\ Decodable(package.recs[i]) =>
                        package.recs[i].inst \in Keys(string_tables)
        /\ \A inst \in Keys(string_tables) :
              \E i \in Records : Decodable(package.recs[i]) /\ package.recs[i].inst = inst

\* a deleted record is followed by a table that was loaded
C15_Witness ==
    /\ pc = "open" /\ Parsed /\ Len(package.recs) = 2
    /\ Deleted(package.recs[1])
    /\ Decodable(package.recs[2]) /\ package.recs[2].inst = InstanceA
    /\ Len(entries) = 1 /\ entries[1].group_id = 2
    /\ Keys(string_tables) = {InstanceA}

\* the places of the entry list that hold a string-table entry of the instance id
EntriesOf(inst) ==
    { k \in 1..Len(entries) :
        entries[k].type_id = STBL_TYPE /\ entries[k].instance_id = inst }

\* C16: after load, every table of the instance-id to table mapping
\* belongs to exactly one entry of the entry list that has the string-table
\* type and the mapping key as its instance id.
C16_OneEntryPerTable ==
    Opened => \A inst \in Keys(string_tables) : Cardinality(EntriesOf(inst)) = 1

\* the word that follows the flag word of the index
SharedType ==
    FromBytes(Slice(current_file_data, IndexOffset(package) + 4,
                    IndexOffset(package) + 8))

\* C17: with bit 0 of the index flag word set, the type is read once,
\* right after the flag word, and every parsed entry has it; the group and
\* the instance of each entry are those of its own record.
C17_SharedTypeApplied ==
    (Parsed /\ ConstType(package)) =>
        LET kept == KeptFrom(package, 1) IN
        /\ Len(entries) = Len(kept)
        /\ \A k \in 1..Len(entries) :
              /\ entries[k].type_id = SharedType
              /\ entries[k].group_id = kept[k]
              /\ entries[k].instance_id = package.recs[kept[k]].inst

\* two records of one shared type and two instance ids were parsed
C17_Witness ==
    /\ pc = "open" /\ Parsed /\ ConstType(package)
    /\ Len(entries) = 2
    /\ SharedType = STBL_TYPE
    /\ entries[1].instance_id = InstanceA /\ entries[2].instance_id = InstanceB
    /\ entries[1].group_id = 1 /\ entries[2].group_id = 2
    /\ Keys(string_tables) = {InstanceA, InstanceB}
    /\ \A inst \in Keys(string_tables) :
          Lookup(string_tables, inst).strings = SampleTable(inst)

\* the size field of record i, as it lies in the file
SizeField(i) ==
    FromBytes(Slice(current_file_data, OffsetField(package, i) + 4,
                    OffsetField(package, i) + 8))

\* record i is followed by the 4 bytes of a codec-id pair
HasCodecPair(i) == RecordEnd(package, i) - OffsetField(package, i) = 16

\* no record after record i holds a table for the same instance id
LastTableOf(i) ==
    \A j \in Records :
        (j > i /\ Decodable(package.recs[j])) => package.recs[j].inst # package.recs[i].inst

\* C23: load reads the codec-id pair of a record exactly when bit 31 of
\* its size field is set: every record is read from where it starts, the
\* size recorded for its entry is the size field with bit 31 cleared, and
\* the payload of a string-table record without the pair is decoded as it
\* is stored.
C23_CodecPairOnlyWithHighBit ==
    Parsed =>
        LET kept == KeptFrom(package, 1) IN
        /\ Len(entries) = Len(kept)
        /\ \A k \in 1..Len(entries) :
              LET i == kept[k]
                  p == OffsetField(package, i)
              IN  /\ HighBit(SizeField(i)) <=> HasCodecPair(i)
                  /\ entries[k].instance_id = package.recs[i].inst
                  /\ entries[k].offset = FromBytes(Slice(current_file_data, p, p + 4))
                  /\ entries[k].size = Low31(SizeField(i))
                  /\ (~HighBit(SizeField(i)) /\ entries[k].type_id = STBL_TYPE
                        /\ LastTableOf(i)) =>
                         /\ entries[k].instance_id \in Keys(tables_at_load)
                         /\ Lookup(tables_at_load, entries[k].instance_id).strings
                              = stbl_load_from_binary(
                                    Slice(current_file_data, entries[k].offset,
                                          entries[k].offset + entries[k].size)).strings

\* a record without the pair is followed by a record with it, and both
\* tables were loaded
C23_Witness ==
    /\ pc = "open" /\ Parsed /\ Len(package.recs) = 2
    /\ ~HighBit(SizeField(1)) /\ ~HasCodecPair(1)
    /\ HighBit(SizeField(2)) /\ HasCodecPair(2)
    /\ Len(entries) = 2
    /\ entries[1].size = Len(TableBytesA)
    /\ entries[2].size = Len(DeflatedB)
    /\ entries[1].instance_id = InstanceA /\ entries[2].instance_id = InstanceB
    /\ Lookup(tables_at_load, InstanceA).strings = SampleTable(InstanceA)
    /\ Lookup(tables_at_load, InstanceB).strings = SampleTable(InstanceB)

----------------------------------------------------------------------------
(* Claims on the index flag word, checked under SpecFlags *)

\* the shared extended-instance word: it follows the flag word, the shared
\* type and the shared group
SharedInstanceEx ==
    LET at == IndexOffset(package) + 4
              + (IF ConstType(package) THEN 4 ELSE 0)
              + (IF ConstGroup(package) THEN 4 ELSE 0)
    IN  FromBytes(Slice(current_file_data, at, at + 4))

\* C21: with bit 2 of the index flag word set, the extended-instance word
\* is read once after the flag word and the shared type and group, the
\* records have no such field, and each of the N entries is recorded with
\* the shared word as the high half of its instance id and its own low word.
C21_SharedInstanceExApplied ==
    (Parsed /\ ConstInstanceEx(package)) =>
        LET kept == KeptFrom(package, 1) IN
        /\ Len(entries) = Len(kept)
        /\ \A k \in 1..Len(entries) :
              entries[k].instance_id =
                  <<SharedInstanceEx, package.recs[kept[k]].inst[2]>>

----------------------------------------------------------------------------
(* Claims on decode_ref_pack, checked under SpecRefPack *)

\* the value of the size field of the buffer, None (-1) where the buffer
\* ends before the field does
DeclaredSize(ibuf) ==
    LET k == IF ibuf[1] >= 128 THEN 4 ELSE 3 IN
    IF Len(ibuf) < 2 + k THEN -1
    ELSE BigEndian(Slice(ibuf, 2, 2 + k), 0)

\* C18: decode_ref_pack raises, and so returns nothing, whenever the
\* second byte of its input is not the signature 0xFB.
C18_BadSignatureRaises ==
    (ref_done /\ (Len(ref_ibuf) < 2 \/ ref_ibuf[2] # RefPackSignature)) =>
        ref_result = Raised

\* a buffer that decodes to the empty output but for its signature byte
C18_Witness ==
    /\ ref_done
    /\ ref_ibuf = RefPackHeader(16, 250, 0)
    /\ ~ref_result.ok
    /\ decode_ref_pack(RefPackHeader(16, RefPackSignature, 0)).ok

\* C19: the output of decode_ref_pack is allocated with the size of the
\* size field, and literal or copied bytes that would go past that size
\* make it raise: an output that is returned has the declared length.
C19_OutputHasDeclaredSize ==
    (ref_done /\ ref_result.ok) =>
        Len(ref_result.data) = DeclaredSize(ref_ibuf)

\* the buffer has the signature and a whole size field
WholeHeader(ibuf) ==
    /\ Len(ibuf) >= 2
    /\ ibuf[2] = RefPackSignature
    /\ DeclaredSize(ibuf) >= 0

\* the bytes after the size field: the opcodes and their literals
Body(ibuf) == Slice(ibuf, IF ibuf[1] >= 128 THEN 6 ELSE 5, Len(ibuf))

\* the body is one opcode of control byte 0x80 to 0xBF in three bytes and
\* its k >= 1 literals, with a copy that starts inside the literals and
\* ends where the output ends
OneClassB(ibuf) ==
    /\ WholeHeader(ibuf)
    /\ Len(Body(ibuf)) >= 3
    /\ Body(ibuf)[1] \in 128..191
    /\ LET body == Body(ibuf)
           k == body[2] \div 64
           n == (body[1] % 64) + 4
           d == (body[2] % 64) * 256 + body[3]
       IN  /\ k >= 1
           /\ Len(body) = 3 + k
           /\ d + 1 <= k
           /\ k + n = DeclaredSize(ibuf)

\* C24: an opcode of control byte 0x80 to 0xBF takes three input bytes:
\* its literals are the input bytes right after byte 2, and they are the
\* first bytes of the output of a buffer that holds this opcode alone.
C24_ClassBTakesThreeBytes ==
    (ref_done /\ OneClassB(ref_ibuf)) =>
        LET body == Body(ref_ibuf)
            k == body[2] \div 64
        IN  /\ ref_result.ok
            /\ Slice(ref_result.data, 0, k) = Slice(body, 3, 3 + k)

\* the body is one opcode of control byte 0x00 to 0x7F and its k
\* literals, with a copy that starts inside the literals and ends inside
\* the output
OneClassA(ibuf) ==
    /\ WholeHeader(ibuf)
    /\ Len(Body(ibuf)) >= 2
    /\ Body(ibuf)[1] <= 127
    /\ LET body == Body(ibuf)
           k == body[1] % 4
           n == ((body[1] \div 4) % 8) + 3
           d == ((body[1] \div 32) % 4) * 256 + body[2]
       IN  /\ Len(body) = 2 + k
           /\ d + 1 <= k
           /\ k + n <= DeclaredSize(ibuf)

\* C25: a copy of n bytes at distance d that starts at cursor p, with
\* d + 1 <= p, leaves out[p+i] = out[p+i-(d+1)] for every i < n, also
\* where n > d + 1 and the copy reads what it wrote; the bytes before p are
\* the literals and the bytes from p + n on are as allocated.
C25_CopyRepeatsLastBytes ==
    (ref_done /\ OneClassA(ref_ibuf)) =>
        LET body == Body(ref_ibuf)
            p == body[1] % 4
            n == ((body[1] \div 4) % 8) + 3
            d == ((body[1] \div 32) % 4) * 256 + body[2]
            out == ref_result.data
        IN  /\ ref_result.ok
            /\ Slice(out, 0, p) = Slice(body, 2, 2 + p)
            /\ \A i \in 0..(n - 1) : out[p + i + 1] = out[p + i - (d + 1) + 1]
            /\ \A j \in (p + n + 1)..Len(out) : out[j] = 0

\* two literals and a copy of three bytes at distance 1: the copy reads
\* its own first byte
C25_Witness ==
    /\ ref_done
    /\ ref_ibuf = RefPackHeader(16, RefPackSignature, 5) \o <<2, 1, 1, 2>>
    /\ OneClassA(ref_ibuf)
    /\ ref_result = [ok |-> TRUE, data |-> <<1, 2, 1, 2, 1>>]

\* the first opcode, of control byte 0x00 to 0x7F, has its k literals and
\* a copy whose source lies before the start of the output
FirstCopyBeforeStart(ibuf) ==
    /\ WholeHeader(ibuf)
    /\ Len(Body(ibuf)) >= 2
    /\ Body(ibuf)[1] <= 127
    /\ LET body == Body(ibuf)
           k == body[1] % 4
           d == ((body[1] \div 32) % 4) * 256 + body[2]
       IN  /\ Len(body) >= 2 + k
           /\ d + 1 > k

\* C26: a copy whose distance + 1 exceeds the output cursor makes
\* decode_ref_pack raise: no output is returned.
C26_CopyBeforeStartRaises ==
    (ref_done /\ FirstCopyBeforeStart(ref_ibuf)) => ~ref_result.ok

----------------------------------------------------------------------------
(* Claims on ModTranslator.open_file, checked under Spec *)

\* the keys of all the tables of the package
AllKeys(tables) == UNION { Keys(tables[t].strings) : t \in 1..Len(tables) }

\* C20: in the merged session table a key taken from an earlier table is
\* not overwritten by a later one: the merged entry of each key is the
\* entry of the first table, in mapping order, that holds the key.
C20_FirstWriterWins ==
    (Opened /\ load_ok) =>
        /\ Keys(string_table) = AllKeys(string_tables)
        /\ \A k \in Keys(string_table) :
              Lookup(string_table, k) =
                  Lookup(string_tables[Owner(string_tables, k)].strings, k)

\* two tables with different entries for one key were merged
C20_Witness ==
    /\ pc = "open" /\ load_ok
    /\ Len(string_tables) = 2
    /\ \E k \in Keys(string_tables[1].strings) \cap Keys(string_tables[2].strings) :
          /\ Lookup(string_tables[1].strings, k) # Lookup(string_tables[2].strings, k)
          /\ Lookup(string_table, k) = Lookup(string_tables[1].strings, k)
    /\ Keys(string_tables[2].strings) \ Keys(string_tables[1].strings) # {}

----------------------------------------------------------------------------
(* Claims on DBPFFile.save_to_binary, checked under Spec *)

\* the table of instance inst differs from what load_from_binary decoded
Modified(inst) ==
    /\ inst \in Keys(string_tables)
    /\ Lookup(string_tables, inst) # Lookup(tables_at_load, inst)

\* what the first pass of save recorded: instance id -> (new offset, new
\* compressed size, new decompressed size)
UpdatedEntries ==
    AppendTables(Self, entries,
                 [data |-> current_file_data, updated_entries |-> <<>>]).updated_entries

SameBytes(from, to) ==
    Slice(output, from, to) = Slice(current_file_data, from, to)

\* C1: save appends a payload and rewrites an index record only for the
\* tables modified since load; with no table modified, the returned
\* buffer is the original buffer.
C1_OnlyModifiedTablesSaved ==
    pc = "saved" =>
        /\ (\A inst \in Keys(string_tables) : ~Modified(inst))
               => output = current_file_data
        /\ Len(output) > Len(current_file_data)
               => \E inst \in Keys(string_tables) : Modified(inst)

\* C2: every index record that save does not update has the same bytes in
\* the output as in the original buffer.
C2_OtherRecordsUntouched ==
    (pc = "saved" /\ output # <<>>) =>
        \A i \in Records :
            package.recs[i].inst \notin Keys(UpdatedEntries)
                => SameBytes(RecordStart(package, i), RecordEnd(package, i))

\* two string-table entries with their own tables, one of them modified
TwoTablesOneModified ==
    /\ Len(package.recs) = 2
    /\ \A i \in Records : package.recs[i].type = STBL_TYPE
    /\ package.recs[1].inst # package.recs[2].inst
    /\ Len(string_tables) = 2
    /\ Cardinality({inst \in Keys(string_tables) : Modified(inst)}) = 1

\* C3: with two string-table entries of which one table was modified, the
\* payload bytes of the unmodified entry are the same in the output as in
\* the input, wherever the index lies.
C3_UnmodifiedPayloadKept ==
    (pc = "saved" /\ output # <<>> /\ TwoTablesOneModified) =>
        \A i \in Records :
            ~Modified(package.recs[i].inst)
                => SameBytes(PayloadOffset(package, i), PayloadEnd(package, i))

\* the buffer after the first pass of save: the original bytes and the
\* appended payloads
Appended ==
    AppendTables(Self, entries,
                 [data |-> current_file_data, updated_entries |-> <<>>]).data

\* C4: every index record whose instance id was recorded as updated holds,
\* in its own offset, size, decompressed-size and codec fields, the place
\* of the appended payload, its compressed length with bit 31 set, the
\* length of the encoded table and the deflate id 0x5A42; save writes
\* nowhere else: not over other bytes of the original buffer, not over the
\* appended payloads.
C4_UpdatedRecordRewrittenInPlace ==
    (pc = "saved" /\ output # <<>>) =>
        /\ \A i \in Records :
              package.recs[i].inst \in Keys(UpdatedEntries) =>
                  LET p == OffsetField(package, i)
                      u == Lookup(UpdatedEntries, package.recs[i].inst)
                  IN  /\ FromBytes(Slice(output, p, p + 4)) = u.new_offset
                      /\ HighBit(FromBytes(Slice(output, p + 4, p + 8)))
                      /\ Low31(FromBytes(Slice(output, p + 4, p + 8))) = u.new_size
                      /\ FromBytes(Slice(output, p + 8, p + 12)) = u.decompressed_size
                      /\ HasPair(package.recs[i])
                            => Slice(output, p + 12, p + 14) = <<66, 90>>
        /\ \A q \in 1..Len(current_file_data) :
              output[q] # current_file_data[q] =>
                  \E i \in Records :
                      /\ package.recs[i].inst \in Keys(UpdatedEntries)
                      /\ q > OffsetField(package, i)
                      /\ q <= RecordEnd(package, i)
        /\ Slice(output, Len(current_file_data), Len(output))
               = Slice(Appended, Len(current_file_data), Len(Appended))

\* the payload an index record of the output points to, when the record
\* was redirected to the appended part of the buffer
Redirected(i) ==
    FromBytes(Slice(output, OffsetField(package, i), OffsetField(package, i) + 4))
        >= Len(current_file_data)

RedirectedPayload(i) ==
    LET p == OffsetField(package, i) IN
    Payload(output, FromBytes(Slice(output, p, p + 4)),
            Low31(FromBytes(Slice(output, p + 4, p + 8))))

\* C5: save returns an error or a fully assembled buffer; when the
\* encoding of a table fails (StringTableFile.save_to_binary returns b''),
\* save does not return a buffer with an index record redirected to the
\* compressed form of that failed result.
C5_NoRedirectToFailedEncoding ==
    (pc = "saved" /\ output # <<>>) =>
        \A i \in Records :
            Redirected(i) => RedirectedPayload(i) # zlib_compress(<<>>)

----------------------------------------------------------------------------
(* Claims on the two index walks, checked under SpecFlags *)

\* no instance id: the loop body of load raised before it had one
NoInstance == <<>>

\* the walk of load over n records from pos: for each record the position
\* where the loop body starts and the instance id it computes
RECURSIVE LoadWalk(_, _, _, _)
LoadWalk(data, n, pos, c) ==
    IF n <= 0 THEN <<>>
    ELSE LET pt == IF c.const_type THEN pos ELSE pos + 4
             pg == IF c.const_group THEN pt ELSE pt + 4
         IN
         IF c.const_instance_ex
         THEN << [start |-> pos, instance_id |-> NoInstance] >>
              \o LoadWalk(data, n - 1, pg, c)
         ELSE LET entry_inst_ex == FromBytes(Slice(data, pg, pg + 4))
                  entry_inst == FromBytes(Slice(data, pg + 4, pg + 8))
                  file_size == FromBytes(Slice(data, pg + 12, pg + 16))
              IN  << [start |-> pos, instance_id |-> <<entry_inst_ex, entry_inst>>] >>
                  \o LoadWalk(data, n - 1,
                              IF HighBit(file_size) THEN pg + 24 ELSE pg + 20, c)

\* the walk of the second pass of save over n records from pos, on the
\* buffer that it rewrites as it goes
RECURSIVE SaveWalk(_, _, _, _, _)
SaveWalk(data, n, pos, c, updated_entries) ==
    IF n <= 0 THEN <<>>
    ELSE LET pt == IF c.const_type THEN pos ELSE pos + 4
             pg == IF c.const_group THEN pt ELSE pt + 4
             inst_ex == IF c.const_instance_ex
                        THEN FromBytes(Slice(data, c.index_pos + 4, c.index_pos + 8))
                        ELSE FromBytes(Slice(data, pg, pg + 4))
             pi == IF c.const_instance_ex THEN pg ELSE pg + 4
             inst == FromBytes(Slice(data, pi, pi + 4))
             p == pi + 4
             instance_id == <<inst_ex, inst>>
         IN
         << [start |-> pos, instance_id |-> instance_id] >>
         \o (IF instance_id \in Keys(updated_entries)
             THEN SaveWalk(RewriteRecord(data, p, Lookup(updated_entries, instance_id)),
                           n - 1, p + 16, c, updated_entries)
             ELSE SaveWalk(data, n - 1,
                      IF HighBit(FromBytes(Slice(data, p + 4, p + 8)))
                      THEN p + 16 ELSE p + 12,
                      c, updated_entries))

\* the second pass of save ran: a header was loaded and a table appended
SecondPassRan ==
    /\ pc = "saved"
    /\ header # <<>>
    /\ UpdatedEntries # <<>>

\* C22: the second pass of save walks the index as load did: for every
\* flag word and every record, the position where save takes the record to
\* start and the instance id it computes are those of load.
C22_SaveWalksAsLoad ==
    SecondPassRan =>
        LET h == header[1]
            before == IndexFlags(current_file_data, h.index_offset)
            after == IndexFlags(Appended, h.index_offset)
        IN  SaveWalk(Appended, h.index_count, after.pos, after, UpdatedEntries)
                = LoadWalk(current_file_data, h.index_count, before.pos, before)

----------------------------------------------------------------------------
(* Claims on a DBPFFile that is loaded again, checked under SpecReopen *)

\* DBPFFile(): no header, no entry, no table
NewFile == [header |-> <<>>, entries |-> <<>>, string_tables |-> <<>>, ret |-> FALSE]

\* C27: after every load_from_binary on the one DBPFFile, the entry list
\* and the table mapping are those of the buffer loaded last, as a new
\* DBPFFile would hold them: nothing of an earlier load remains, also when
\* the last load failed.
C27_OnlyLastLoadRemains ==
    Opened =>
        LET fresh == dbpf_load_from_binary(NewFile, current_file_data) IN
        /\ entries = fresh.entries
        /\ tables_at_load = fresh.string_tables

----------------------------------------------------------------------------
(* Claims on save followed by load, checked under Spec *)

\* the file was loaded and saved, and save returned a buffer
SavedPackage == pc = "saved" /\ load_ok /\ output # <<>>

\* C28: the buffer that save returns, loaded into a new DBPFFile, gives
\* the entry list of the saved model (as many entries, with the same type,
\* group and instance id, in the same order) and, for each instance id of
\* the saved model, its table up to the text normalization; for records
\* stored without the codec-id pair as for compressed ones.
C28_SaveThenLoad ==
    SavedPackage =>
        LET fresh == dbpf_load_from_binary(NewFile, output) IN
        /\ Len(fresh.entries) = Len(entries)
        /\ \A k \in 1..Len(entries) :
              k <= Len(fresh.entries) =>
                  /\ fresh.entries[k].type_id = entries[k].type_id
                  /\ fresh.entries[k].group_id = entries[k].group_id
                  /\ fresh.entries[k].instance_id = entries[k].instance_id
        /\ \A inst \in Keys(string_tables) :
              /\ inst \in Keys(fresh.string_tables)
              /\ SameUpToNormalization(Lookup(fresh.string_tables, inst).strings,
                                       Lookup(string_tables, inst).strings)

----------------------------------------------------------------------------
(* Claims on the records that save rewrites, checked under Spec *)

\* every string-table record of the file has the codec-id pair, so that a
\* rewritten string-table record keeps its length
TablesHavePair ==
    \A i \in Records : package.recs[i].type = STBL_TYPE => HasPair(package.recs[i])

\* C29: save rewrites the fields of string-table records only: a record
\* of another type, or a deleted record, that has the instance id of an
\* updated table has the same bytes in the output as in the input.
C29_OnlyTableRecordsRewritten ==
    (pc = "saved" /\ output # <<>> /\ TablesHavePair) =>
        \A i \in Records :
            (/\ package.recs[i].type # STBL_TYPE \/ Deleted(package.recs[i])
             /\ package.recs[i].inst \in Keys(UpdatedEntries))
                => SameBytes(RecordStart(package, i), RecordEnd(package, i))

----------------------------------------------------------------------------
(* Claims on the batch translation, checked under SpecBatch *)

\* every worker that was started has ended, and the slots have run for
\* all the signals
AllWorkersEnded ==
    /\ batch_pc = "started"
    /\ \A i \in 1..MaxChunks : workers[i] \in {"none", "ended"}
    /\ signals = <<>>

\* C30: once every started worker of a batch has ended, by finished or by
\* error, active_workers is 0 and the completion of the batch was reported;
\* also when a worker ended with an error and when the batch was cancelled
\* before all chunks were started.
C30_BatchCompletes ==
    AllWorkersEnded => (active_workers = 0 /\ completion_shown)

====
